---- MODULE Spec2Model ----
(***************************************************************************)
(* Model of the E-Frame application's BLE transfer engine                  *)
(* (useBLE.startStreamingData, src/useBLE.ts).                             *)
(*                                                                         *)
(* One action is the code that runs between two suspension points of the   *)
(* async function (JavaScript runs each such stretch to completion): the   *)
(* call itself up to the MTU request, the continuation after each awaited  *)
(* primitive, the catch block, and the setTimeout callbacks.               *)
(*                                                                         *)
(* The connection (useBLE.connectToDevice, onDeviceDisconnected) and the   *)
(* Send button of the connected-device screen with its alert               *)
(* (src/ConnectedDeviceScreen.tsx, src/App.tsx) are modelled the same way. *)
(***************************************************************************)
EXTENDS Integers, Sequences, FiniteSets, TLC

(* ------------------------------------------------------------------ *)
(* Bounds of the model                                                 *)
(* ------------------------------------------------------------------ *)

\* number of startStreamingData calls a caller makes in one behaviour
MaxSessions == 2

\* the payload lengths of a single call go around every chunk boundary up to
\* this number of full chunks
MaxFullChunks == 2

\* calls of connectToDevice that can be under way at once
MaxConnects == 2

\* calls of methods of ImageStorageService made in one behaviour
MaxOps == 3

\* calls of mutations of ImageStorageService made in one behaviour of the
\* service under mutations with every input
MaxMutations == 2

(* ------------------------------------------------------------------ *)
(* Program constants                                                   *)
(* ------------------------------------------------------------------ *)

limitBytes == 300

RequestedMTU == 303

SuccessResetDelay == 2000

FailureResetDelay == 3000

endMarker == <<255, 255, 255, 255>>

NullDevice == "null"

Devices == {"frame"}

\* the values requestMTU can resolve to (the unit the peripheral grants)
GrantedMTUs == {23, 303}

Sessions == 1..MaxSessions

(* ------------------------------------------------------------------ *)
(* Inputs: payloads                                                    *)
(* ------------------------------------------------------------------ *)

\* a payload of the given length whose bytes differ from chunk to chunk
Payload(len, seed) == [k \in 1..len |-> (seed + 7 * k) % 256]

\* payload lengths of repeated calls: empty, one partial chunk, a full chunk and a partial one
SmallLens == {0, 1, limitBytes + 1}

\* payload lengths of a single call: the chunk boundaries, 700 bytes and 15000 bytes
SingleLens ==
    {0, 1, 700, 15000}
        \cup { c * limitBytes + d : c \in 1..MaxFullChunks, d \in {-1, 0, 1} }

(* ------------------------------------------------------------------ *)
(* Pure functions of the source                                        *)
(* ------------------------------------------------------------------ *)

Min(a, b) == IF a < b THEN a ELSE b

SliceEndInclusive(arr, start, end) == SubSeq(arr, start + 1, Min(end + 1, Len(arr)))

\* Array.prototype.slice(start, end) for 0 <= start <= end (0-indexed, end exclusive)
Slice(arr, start, end) == SubSeq(arr, start + 1, Min(end, Len(arr)))

RECURSIVE ChunkLoop(_, _, _)
ChunkLoop(byteData, i, chunks) ==
    IF i < Len(byteData)
    THEN ChunkLoop(byteData, i + limitBytes,
                   Append(chunks, Slice(byteData, i, i + limitBytes)))
    ELSE chunks

\* chunking with a loop that tests its condition after the body, so that an
\* empty payload gives one empty chunk
MakeChunksDoWhile(byteData) ==
    IF Len(byteData) = 0 THEN << <<>> >> ELSE ChunkLoop(byteData, 0, <<>>)

\* the chunks array built by the loop of startStreamingData
MakeChunks(byteData) == ChunkLoop(byteData, 0, <<>>)

\* new Uint8Array(bytes): each element is taken modulo 2^8
ToUint8(bytes) == [k \in 1..Len(bytes) |-> bytes[k] % 256]

\* base64 alphabet positions: 0..63 are the characters of
\* "ABC...XYZabc...xyz0123456789+/", PadChar is "="
PadChar == 64

\* character k (1-based) of the base64 text of the char codes: every three
\* codes b1 b2 b3 give four characters, "=" standing for a missing code
Base64Char(codes, k) ==
    LET g  == (k - 1) \div 4
        n  == Len(codes)
        b1 == codes[3 * g + 1]
        b2 == IF 3 * g + 2 <= n THEN codes[3 * g + 2] ELSE 0
        b3 == IF 3 * g + 3 <= n THEN codes[3 * g + 3] ELSE 0
    IN CASE (k - 1) % 4 = 0 -> b1 \div 4
         [] (k - 1) % 4 = 1 -> (b1 % 4) * 16 + (b2 \div 16)
         [] (k - 1) % 4 = 2 -> IF 3 * g + 2 <= n
                               THEN (b2 % 16) * 4 + (b3 \div 64) ELSE PadChar
         [] OTHER           -> IF 3 * g + 3 <= n THEN b3 % 64 ELSE PadChar

\* base64.encode: one group of four characters for every three char codes
Base64Encode(codes) ==
    [k \in 1..(4 * ((Len(codes) + 2) \div 3)) |-> Base64Char(codes, k)]

\* bytesToBase64 that keeps only seven bits of every byte
bytesToBase64SevenBit(bytes) == Base64Encode([k \in 1..Len(bytes) |-> bytes[k] % 128])

\* bytesToBase64: Uint8Array -> one char code per byte -> base64 text
bytesToBase64(bytes) == Base64Encode(ToUint8(bytes))

\* ties k + 0.5 that (count / length) * 100 evaluates strictly below in
\* IEEE-754 double arithmetic, so that Math.round gives k instead of k + 1
TieBelow == {14, 28, 56, 57}

\* the number NaN, which is no integer: 0 / 0 is NaN and Math.round(NaN) is NaN
NotANumber == -1

\* Math.round((count / length) * 100) for 0 <= count <= length
Progress(count, length) ==
    IF length = 0 THEN NotANumber
    ELSE LET k == (100 * count) \div length
             r == (100 * count) % length
         IN IF 2 * r > length THEN k + 1
            ELSE IF 2 * r < length THEN k
            ELSE IF k \in TieBelow THEN k ELSE k + 1

StreamingStatusText(progress, count, length) ==
    "Streaming... "
        \o (IF progress = NotANumber THEN "NaN" ELSE ToString(progress))
        \o "% (" \o ToString(count) \o "/" \o ToString(length) \o " bytes)"

(* ------------------------------------------------------------------ *)
(* State                                                               *)
(* ------------------------------------------------------------------ *)

VARIABLES
    streamingProgress,  \* useState(0): progress published to the observer
    isStreaming,        \* useState(false)
    streamingStatus,    \* useState(""): status message published to the observer
    sess,               \* the activations of startStreamingData, by call number
    ncalls,             \* number of calls made so far
    mtuRequests,        \* requestMTU calls issued to the device, in issue order
    writes,             \* writeCharacteristicWithResponseForService calls, in issue order
    timers,             \* pending setTimeout callbacks of finished activations
    pub,                \* per activation, the values it passed to setStreamingStatus
                        \* and to setStreamingProgress, in call order
    connectedDevice,    \* useState(null): the device of the hook
    isConnected,        \* useState(false)
    connecting,         \* where each activation of connectToDevice is
    disconnecting,      \* where the activation of disconnectDevice is
    allDevices,         \* useState([]): the devices the scan has listed
    scanning,           \* a device scan is running
    selectedImageId,    \* useState(null) of ConnectedDeviceScreen
    sendAlerts,         \* the open "Send Image" alerts, the one on top last
    images,             \* this.images of ImageStorageService
    initialized,        \* this.initialized of ImageStorageService
    storage,            \* the item of AsyncStorage under STORAGE_KEY
    ops,                \* the calls of methods of the service, by call number
    nops,               \* number of calls of the service made so far
    mode,               \* useState('list') of ImageManagementModal
    editingImage,       \* useState(null) of ImageManagementModal
    formData,           \* the form of ImageManagementModal
    modalImages,        \* useState([]): the images the modal lists
    loading             \* useState(false) of ImageManagementModal

\* the state of the transfer engine
engine == << streamingProgress, isStreaming, streamingStatus, sess, ncalls,
             mtuRequests, writes, timers, pub >>

\* the state of the connection
conn == << connectedDevice, isConnected, connecting, disconnecting >>

\* the state of the scan
scan == << allDevices, scanning >>

\* the state of the connected-device screen
screen == << selectedImageId, sendAlerts >>

\* the state of ImageStorageService, of its calls and of AsyncStorage
service == << images, initialized, storage, ops, nops >>

\* the state of ImageManagementModal
modal == << mode, editingImage, formData, modalImages, loading >>

\* the state of the image library
store == << images, initialized, storage, ops, nops, mode, editingImage,
            formData, modalImages, loading >>

\* everything but the transfer engine
ui == << connectedDevice, isConnected, connecting, disconnecting, allDevices,
         scanning, selectedImageId, sendAlerts, images, initialized, storage,
         ops, nops, mode, editingImage, formData, modalImages, loading >>

\* everything but the image library
ble == << streamingProgress, isStreaming, streamingStatus, sess, ncalls,
          mtuRequests, writes, timers, pub, connectedDevice, isConnected,
          connecting, disconnecting, allDevices, scanning, selectedImageId,
          sendAlerts >>

vars == << streamingProgress, isStreaming, streamingStatus, sess, ncalls,
           mtuRequests, writes, timers, pub, connectedDevice, isConnected,
           connecting, disconnecting, allDevices, scanning, selectedImageId,
           sendAlerts, images, initialized, storage, ops, nops, mode,
           editingImage, formData, modalImages, loading >>

\* the calls of methods of ImageStorageService
OpIds == 1..MaxOps

\* AsyncStorage.getItem returns null for a key that was never set
NullItem == [set |-> FALSE, value |-> << >>]

\* a call of a method of the service that has not been made
IdleOp ==
    [method |-> "none", caller |-> "none", pc |-> "idle", id |-> 0,
     name |-> << >>, byteString |-> << >>, item |-> NullItem,
     result |-> << >>, after |-> {}]

\* the form of the modal after resetForm
EmptyForm == [name |-> << >>, byteString |-> << >>]

\* editingImage after setEditingImage(null)
NoEditingImage == [id |-> 0, name |-> << >>, byteData |-> << >>]

\* the activations of connectToDevice
ConnectIds == 1..MaxConnects

\* selectedImageId when no image is selected
NoImage == "null"

\* the ways an awaited primitive of the device can throw
Errors == {"disconnected", "rejected"}

Terminal == {"completed", "failed", "rejected"}

\* the locals of one activation before it is called
IdleSession ==
    [ pc            |-> "idle",      \* the suspension point the activation is at
      device        |-> NullDevice,  \* argument
      byteData      |-> <<>>,        \* argument
      mtuRequestRes |-> 0,
      chunks        |-> <<>>,
      i             |-> 0,
      count         |-> 0,
      published     |-> 0,           \* last value it passed to setStreamingProgress
      error         |-> "none",      \* the error the catch block received
      promise       |-> "none" ]     \* state of the promise the call returned

Init ==
    /\ streamingProgress = 0
    /\ isStreaming = FALSE
    /\ streamingStatus = ""
    /\ sess = [s \in Sessions |-> IdleSession]
    /\ ncalls = 0
    /\ mtuRequests = <<>>
    /\ writes = <<>>
    /\ timers = {}
    /\ pub = [s \in Sessions |-> [statuses |-> <<>>, progresses |-> <<>>]]
    /\ connectedDevice = NullDevice
    /\ isConnected = FALSE
    /\ connecting = [c \in ConnectIds |-> "idle"]
    /\ disconnecting = "idle"
    /\ allDevices = <<>>
    /\ scanning = FALSE
    /\ selectedImageId = NoImage
    /\ sendAlerts = <<>>
    /\ images = << >>
    /\ initialized = FALSE
    /\ storage = NullItem
    /\ ops = [o \in OpIds |-> IdleOp]
    /\ nops = 0
    /\ mode = "list"
    /\ editingImage = NoEditingImage
    /\ formData = EmptyForm
    /\ modalImages = << >>
    /\ loading = FALSE

(* ------------------------------------------------------------------ *)
(* Helpers on the logs of issued primitives                            *)
(* ------------------------------------------------------------------ *)

WriteIdx(s) == { k \in 1..Len(writes) : writes[k].sess = s }

PendingIdx(s) == { k \in WriteIdx(s) : writes[k].st = "pending" }

MtuIdx(s) == { k \in 1..Len(mtuRequests) : mtuRequests[k].sess = s }

\* the write activation s is awaiting: the last one it issued
Awaited(s) == { k \in PendingIdx(s) : \A j \in PendingIdx(s) : j <= k }

\* the log with the write that activation s awaits settled as st
SettleWrite(s, st) ==
    [k \in 1..Len(writes) |->
        IF k \in Awaited(s) THEN [writes[k] EXCEPT !.st = st] ELSE writes[k]]

SettleMtu(s, st) ==
    [k \in 1..Len(mtuRequests) |->
        IF mtuRequests[k].sess = s /\ mtuRequests[k].st = "pending"
        THEN [mtuRequests[k] EXCEPT !.st = st] ELSE mtuRequests[k]]

\* device.writeCharacteristicWithResponseForService(service, characteristic, bytesToBase64(bytes))
IssueWrite(log, s, kind, bytes) ==
    Append(log, [sess |-> s, kind |-> kind, value |-> bytesToBase64(bytes),
                 st |-> "pending"])

\* activation s (or its timer callback) calls setStreamingStatus with each of
\* sts and setStreamingProgress with each of prs
Publish(s, sts, prs) ==
    pub' = [pub EXCEPT ![s] = [statuses   |-> @.statuses \o sts,
                               progresses |-> @.progresses \o prs]]

(* ------------------------------------------------------------------ *)
(* startStreamingData                                                  *)
(* ------------------------------------------------------------------ *)

\* the call with a busy check: it returns at once while a transfer is streaming
StartStreamingDataExclusive(s, device, byteData) ==
    /\ sess[s].pc = "idle"
    /\ s = ncalls + 1
    /\ ncalls' = s
    /\ IF device # NullDevice /\ ~isStreaming
       THEN /\ isStreaming' = TRUE
            /\ streamingProgress' = 0
            /\ streamingStatus' = "Requesting MTU..."
            /\ mtuRequests' = Append(mtuRequests,
                                [sess |-> s, mtu |-> RequestedMTU, st |-> "pending"])
            /\ sess' = [sess EXCEPT ![s] =
                          [@ EXCEPT !.pc = "awaitMTU", !.device = device,
                                    !.byteData = byteData, !.published = 0,
                                    !.promise = "pending"]]
            /\ Publish(s, <<"Requesting MTU...">>, <<0>>)
       ELSE IF device # NullDevice
       THEN /\ sess' = [sess EXCEPT ![s] =
                          [@ EXCEPT !.pc = "rejected", !.device = device,
                                    !.byteData = byteData,
                                    !.promise = "fulfilled"]]
            /\ UNCHANGED << streamingProgress, streamingStatus, isStreaming,
                            mtuRequests, pub >>
       ELSE /\ streamingStatus' = "Error: No device connected"
            /\ isStreaming' = FALSE
            /\ sess' = [sess EXCEPT ![s] =
                          [@ EXCEPT !.pc = "rejected", !.device = device,
                                    !.byteData = byteData,
                                    !.promise = "fulfilled"]]
            /\ Publish(s, <<"Error: No device connected">>, <<>>)
            /\ UNCHANGED << streamingProgress, mtuRequests >>
    /\ UNCHANGED << writes, timers >>

\* the call with the test of the device left out
StartStreamingDataUnchecked(s, device, byteData) ==
    /\ sess[s].pc = "idle"
    /\ s = ncalls + 1
    /\ ncalls' = s
    /\ isStreaming' = TRUE
    /\ streamingProgress' = 0
    /\ streamingStatus' = "Requesting MTU..."
    /\ mtuRequests' = Append(mtuRequests,
                        [sess |-> s, mtu |-> RequestedMTU, st |-> "pending"])
    /\ sess' = [sess EXCEPT ![s] =
                  [@ EXCEPT !.pc = "awaitMTU", !.device = device,
                            !.byteData = byteData, !.published = 0,
                            !.promise = "pending"]]
    /\ Publish(s, <<"Requesting MTU...">>, <<0>>)
    /\ UNCHANGED << writes, timers >>

\* the call: from entry to the first await, or the else branch for no device
StartStreamingData(s, device, byteData) ==
    /\ sess[s].pc = "idle"
    /\ s = ncalls + 1
    /\ ncalls' = s
    /\ IF device # NullDevice
       THEN /\ isStreaming' = TRUE
            /\ streamingProgress' = 0
            /\ streamingStatus' = "Requesting MTU..."
            /\ mtuRequests' = Append(mtuRequests,
                                [sess |-> s, mtu |-> RequestedMTU, st |-> "pending"])
            /\ sess' = [sess EXCEPT ![s] =
                          [@ EXCEPT !.pc = "awaitMTU", !.device = device,
                                    !.byteData = byteData, !.published = 0,
                                    !.promise = "pending"]]
            /\ Publish(s, <<"Requesting MTU...">>, <<0>>)
       ELSE /\ streamingStatus' = "Error: No device connected"
            /\ isStreaming' = FALSE
            /\ sess' = [sess EXCEPT ![s] =
                          [@ EXCEPT !.pc = "rejected", !.device = device,
                                    !.byteData = byteData,
                                    !.promise = "fulfilled"]]
            /\ Publish(s, <<"Error: No device connected">>, <<>>)
            /\ UNCHANGED << streamingProgress, mtuRequests >>
    /\ UNCHANGED << writes, timers >>

\* a catch block that names the error in the status message
CatchNamesError(s, r, err) ==
    /\ streamingStatus' = "Error: Streaming failed: " \o err
    /\ isStreaming' = FALSE
    /\ timers' = timers \cup {[sess |-> s, delay |-> FailureResetDelay]}
    /\ sess' = [sess EXCEPT ![s] =
                  [r EXCEPT !.pc = "failed", !.error = err, !.promise = "fulfilled"]]
    /\ Publish(s, <<"Error: Streaming failed: " \o err>>, <<>>)
    /\ UNCHANGED streamingProgress

\* a catch block that reports the failure and schedules no reset
CatchNoReset(s, r, err) ==
    /\ streamingStatus' = "Error: Streaming failed"
    /\ isStreaming' = FALSE
    /\ timers' = timers
    /\ sess' = [sess EXCEPT ![s] =
                  [r EXCEPT !.pc = "failed", !.error = err, !.promise = "fulfilled"]]
    /\ Publish(s, <<"Error: Streaming failed">>, <<>>)
    /\ UNCHANGED streamingProgress

\* a catch block that throws the error again after reporting it
CatchRethrows(s, r, err) ==
    /\ streamingStatus' = "Error: Streaming failed"
    /\ isStreaming' = FALSE
    /\ timers' = timers \cup {[sess |-> s, delay |-> FailureResetDelay]}
    /\ sess' = [sess EXCEPT ![s] =
                  [r EXCEPT !.pc = "failed", !.error = err, !.promise = "rejected"]]
    /\ Publish(s, <<"Error: Streaming failed">>, <<>>)
    /\ UNCHANGED streamingProgress

\* the catch block
Catch(s, r, err) ==
    /\ streamingStatus' = "Error: Streaming failed"
    /\ isStreaming' = FALSE
    /\ timers' = timers \cup {[sess |-> s, delay |-> FailureResetDelay]}
    /\ sess' = [sess EXCEPT ![s] =
                  [r EXCEPT !.pc = "failed", !.error = err, !.promise = "fulfilled"]]
    /\ Publish(s, <<"Error: Streaming failed">>, <<>>)
    /\ UNCHANGED streamingProgress

\* the loop head that writes the end marker before it says so
LoopHeadLateStatus(s, r, log, status, said) ==
    IF r.i < Len(r.chunks)
    THEN /\ writes' = IssueWrite(log, s, "chunk", r.chunks[r.i + 1])
         /\ sess' = [sess EXCEPT ![s] = [r EXCEPT !.pc = "awaitWrite"]]
         /\ streamingStatus' = status
         /\ Publish(s, said, <<>>)
    ELSE /\ writes' = IssueWrite(log, s, "end", endMarker)
         /\ sess' = [sess EXCEPT ![s] = [r EXCEPT !.pc = "awaitEnd"]]
         /\ streamingStatus' = status
         /\ Publish(s, said, <<>>)

\* the loop head with a loop that stops one chunk early
LoopHeadSkipsLast(s, r, log, status, said) ==
    IF r.i < Len(r.chunks) - 1
    THEN /\ writes' = IssueWrite(log, s, "chunk", r.chunks[r.i + 1])
         /\ sess' = [sess EXCEPT ![s] = [r EXCEPT !.pc = "awaitWrite"]]
         /\ streamingStatus' = status
         /\ Publish(s, said, <<>>)
    ELSE /\ writes' = IssueWrite(log, s, "end", endMarker)
         /\ sess' = [sess EXCEPT ![s] = [r EXCEPT !.pc = "awaitEnd"]]
         /\ streamingStatus' = "Sending completion signal..."
         /\ Publish(s, said \o <<"Sending completion signal...">>, <<>>)

\* the loop head with the await of the chunk write left out
LoopHeadNoAwait(s, r, log, status, said) ==
    IF r.i < Len(r.chunks)
    THEN /\ writes' = IssueWrite(log, s, "chunk", r.chunks[r.i + 1])
         /\ sess' = [sess EXCEPT ![s] =
                       [r EXCEPT !.pc = "awaitDelay",
                                 !.count = @ + Len(r.chunks[r.i + 1])]]
         /\ streamingStatus' = status
         /\ Publish(s, said, <<>>)
    ELSE /\ writes' = IssueWrite(log, s, "end", endMarker)
         /\ sess' = [sess EXCEPT ![s] = [r EXCEPT !.pc = "awaitEnd"]]
         /\ streamingStatus' = "Sending completion signal..."
         /\ Publish(s, said \o <<"Sending completion signal...">>, <<>>)

\* the head of the write loop with locals r: write chunk r.i and await it, or,
\* when the loop is over, write the end marker and await it; status is the
\* status message in force when the head is reached and said are the status
\* messages the activation set on its way to the head since it last suspended
LoopHead(s, r, log, status, said) ==
    IF r.i < Len(r.chunks)
    THEN /\ writes' = IssueWrite(log, s, "chunk", r.chunks[r.i + 1])
         /\ sess' = [sess EXCEPT ![s] = [r EXCEPT !.pc = "awaitWrite"]]
         /\ streamingStatus' = status
         /\ Publish(s, said, <<>>)
    ELSE /\ writes' = IssueWrite(log, s, "end", endMarker)
         /\ sess' = [sess EXCEPT ![s] = [r EXCEPT !.pc = "awaitEnd"]]
         /\ streamingStatus' = "Sending completion signal..."
         /\ Publish(s, said \o <<"Sending completion signal...">>, <<>>)

\* requestMTU resolves and the chunks are sized by what was granted: the
\* granted unit less the three bytes of the write header
MtuResolvedSizedByGrant(s, granted) ==
    /\ sess[s].pc = "awaitMTU"
    /\ mtuRequests' = SettleMtu(s, "resolved")
    /\ \E r \in { [sess[s] EXCEPT
                     !.mtuRequestRes = granted,
                     !.chunks = [k \in 1..((Len(sess[s].byteData) + granted - 4)
                                              \div (granted - 3)) |->
                                   Slice(sess[s].byteData, (k - 1) * (granted - 3),
                                         k * (granted - 3))],
                     !.count = 0, !.i = 0] } :
          LoopHead(s, r, writes, "Streaming data...",
                   <<"Preparing data chunks...", "Streaming data...">>)
    /\ UNCHANGED << streamingProgress, isStreaming, ncalls, timers >>

\* requestMTU resolves: build the chunks and enter the loop; the status
\* "Preparing data chunks..." is replaced by "Streaming data..." before the
\* activation suspends again, so only pub shows it
MtuResolved(s, granted) ==
    /\ sess[s].pc = "awaitMTU"
    /\ mtuRequests' = SettleMtu(s, "resolved")
    /\ \E r \in { [sess[s] EXCEPT !.mtuRequestRes = granted,
                                     !.chunks = MakeChunks(sess[s].byteData),
                                     !.count = 0, !.i = 0] } :
          LoopHead(s, r, writes, "Streaming data...",
                   <<"Preparing data chunks...", "Streaming data...">>)
    /\ UNCHANGED << streamingProgress, isStreaming, ncalls, timers >>

\* requestMTU throws
MtuFailed(s, err) ==
    /\ sess[s].pc = "awaitMTU"
    /\ mtuRequests' = SettleMtu(s, "failed")
    /\ Catch(s, sess[s], err)
    /\ UNCHANGED << ncalls, writes >>

\* the acknowledgement that counts limitBytes for every chunk, the last one included
ChunkAckedCountsLimit(s) ==
    /\ sess[s].pc = "awaitWrite"
    /\ LET r        == sess[s]
           chunk    == r.chunks[r.i + 1]
           count    == r.count + limitBytes
           progress == Progress(count, Len(r.byteData))
       IN /\ writes' = SettleWrite(s, "acked")
          /\ streamingProgress' = progress
          /\ streamingStatus' = StreamingStatusText(progress, count, Len(r.byteData))
          /\ sess' = [sess EXCEPT ![s] =
                        [r EXCEPT !.pc = "awaitDelay", !.count = count,
                                  !.published = progress]]
          /\ Publish(s, <<StreamingStatusText(progress, count, Len(r.byteData))>>,
                     <<progress>>)
    /\ UNCHANGED << isStreaming, ncalls, mtuRequests, timers >>

\* the acknowledged write with the progress computed from the chunk alone
ChunkAckedChunkProgress(s) ==
    /\ sess[s].pc = "awaitWrite"
    /\ LET r        == sess[s]
           chunk    == r.chunks[r.i + 1]
           count    == r.count + Len(chunk)
           progress == Progress(Len(chunk), Len(r.byteData))
       IN /\ writes' = SettleWrite(s, "acked")
          /\ streamingProgress' = progress
          /\ streamingStatus' = StreamingStatusText(progress, count, Len(r.byteData))
          /\ sess' = [sess EXCEPT ![s] =
                        [r EXCEPT !.pc = "awaitDelay", !.count = count,
                                  !.published = progress]]
          /\ Publish(s, <<StreamingStatusText(progress, count, Len(r.byteData))>>,
                     <<progress>>)
    /\ UNCHANGED << isStreaming, ncalls, mtuRequests, timers >>

\* the write of chunk i is acknowledged: count it, publish progress, start the pacing delay
ChunkAcked(s) ==
    /\ sess[s].pc = "awaitWrite"
    /\ LET r        == sess[s]
           chunk    == r.chunks[r.i + 1]
           count    == r.count + Len(chunk)
           progress == Progress(count, Len(r.byteData))
       IN /\ writes' = SettleWrite(s, "acked")
          /\ streamingProgress' = progress
          /\ streamingStatus' = StreamingStatusText(progress, count, Len(r.byteData))
          /\ sess' = [sess EXCEPT ![s] =
                        [r EXCEPT !.pc = "awaitDelay", !.count = count,
                                  !.published = progress]]
          /\ Publish(s, <<StreamingStatusText(progress, count, Len(r.byteData))>>,
                     <<progress>>)
    /\ UNCHANGED << isStreaming, ncalls, mtuRequests, timers >>

\* a failing write whose error is swallowed inside the loop
ChunkFailedSwallowed(s, err) ==
    /\ sess[s].pc = "awaitWrite"
    /\ writes' = SettleWrite(s, "failed")
    /\ sess' = [sess EXCEPT ![s] = [@ EXCEPT !.pc = "awaitDelay", !.error = err]]
    /\ UNCHANGED << streamingProgress, isStreaming, streamingStatus, ncalls,
                    mtuRequests, timers, pub >>

\* the failing write with the chunk counted before the write is awaited
ChunkFailedCounted(s, err) ==
    /\ sess[s].pc = "awaitWrite"
    /\ writes' = SettleWrite(s, "failed")
    /\ Catch(s, [sess[s] EXCEPT !.count = @ + Len(sess[s].chunks[sess[s].i + 1])], err)
    /\ UNCHANGED << ncalls, mtuRequests >>

\* the write of chunk i throws
ChunkFailed(s, err) ==
    /\ sess[s].pc = "awaitWrite"
    /\ writes' = SettleWrite(s, "failed")
    /\ Catch(s, sess[s], err)
    /\ UNCHANGED << ncalls, mtuRequests >>

\* a pacing delay whose promise is never resolved
DelayNeverResolved(s) ==
    /\ sess[s].pc = "awaitDelay"
    /\ FALSE
    /\ UNCHANGED vars

\* the 100 ms pacing delay elapses: i++ and back to the loop head
DelayElapsed(s) ==
    /\ sess[s].pc = "awaitDelay"
    /\ \E r \in { [sess[s] EXCEPT !.i = @ + 1] } :
          LoopHead(s, r, writes, streamingStatus, <<>>)
    /\ UNCHANGED << streamingProgress, isStreaming, ncalls, mtuRequests, timers >>

\* the completion with setIsStreaming(false) left out
EndAckedStillStreaming(s) ==
    /\ sess[s].pc = "awaitEnd"
    /\ writes' = SettleWrite(s, "acked")
    /\ streamingProgress' = 100
    /\ streamingStatus' = "Streaming completed successfully!"
    /\ isStreaming' = isStreaming
    /\ timers' = timers \cup {[sess |-> s, delay |-> SuccessResetDelay]}
    /\ sess' = [sess EXCEPT ![s] =
                  [@ EXCEPT !.pc = "completed", !.published = 100,
                            !.promise = "fulfilled"]]
    /\ Publish(s, <<"Streaming completed successfully!">>, <<100>>)
    /\ UNCHANGED << ncalls, mtuRequests >>

\* the acknowledged end marker write with its bytes counted as sent
EndAckedCounted(s) ==
    /\ sess[s].pc = "awaitEnd"
    /\ writes' = SettleWrite(s, "acked")
    /\ streamingProgress' = 100
    /\ streamingStatus' = "Streaming completed successfully!"
    /\ isStreaming' = FALSE
    /\ timers' = timers \cup {[sess |-> s, delay |-> SuccessResetDelay]}
    /\ sess' = [sess EXCEPT ![s] =
                  [@ EXCEPT !.pc = "completed", !.published = 100,
                            !.count = @ + Len(endMarker),
                            !.promise = "fulfilled"]]
    /\ Publish(s, <<"Streaming completed successfully!">>, <<100>>)
    /\ UNCHANGED << ncalls, mtuRequests >>

\* the end marker write is acknowledged: complete and schedule the reset
EndAcked(s) ==
    /\ sess[s].pc = "awaitEnd"
    /\ writes' = SettleWrite(s, "acked")
    /\ streamingProgress' = 100
    /\ streamingStatus' = "Streaming completed successfully!"
    /\ isStreaming' = FALSE
    /\ timers' = timers \cup {[sess |-> s, delay |-> SuccessResetDelay]}
    /\ sess' = [sess EXCEPT ![s] =
                  [@ EXCEPT !.pc = "completed", !.published = 100,
                            !.promise = "fulfilled"]]
    /\ Publish(s, <<"Streaming completed successfully!">>, <<100>>)
    /\ UNCHANGED << ncalls, mtuRequests >>

\* the end marker write throws
EndFailed(s, err) ==
    /\ sess[s].pc = "awaitEnd"
    /\ writes' = SettleWrite(s, "failed")
    /\ Catch(s, sess[s], err)
    /\ UNCHANGED << ncalls, mtuRequests >>

\* a setTimeout callback of a finished activation runs
ResetTimerFired(t) ==
    /\ t \in timers
    /\ timers' = timers \ {t}
    /\ streamingStatus' = ""
    /\ streamingProgress' = 0
    /\ Publish(t.sess, <<"">>, <<0>>)
    /\ UNCHANGED << isStreaming, sess, ncalls, mtuRequests, writes >>

(* ------------------------------------------------------------------ *)
(* The connection and the connected-device screen                      *)
(* ------------------------------------------------------------------ *)

\* "Send Image" alerts that can be open at once
MaxAlerts == 2

\* the images of the gallery and the lengths of their byteData
ImageIds == {"img1"}

ImageLen(id) == limitBytes + 1

\* selectedImage.byteData
ImageByteData(id) == Payload(ImageLen(id), 11)

\* App renders ConnectedDeviceScreen
ScreenShown == connectedDevice # NullDevice /\ isConnected

\* the Send button is not disabled
SendEnabled == ~(selectedImageId = NoImage \/ isStreaming \/ ~isConnected)

\* connectToDevice, from its call to the await of bleManager.connectToDevice
ConnectToDevice(c) ==
    /\ connecting[c] = "idle"
    /\ connecting' = [connecting EXCEPT ![c] = "awaitConnect"]
    /\ UNCHANGED << connectedDevice, isConnected, disconnecting >>
    /\ UNCHANGED << scan, screen, engine, store >>

\* bleManager.connectToDevice resolves: setConnectedDevice, the disconnection
\* monitor, then the await of discoverAllServicesAndCharacteristics
ConnectResolved(c) ==
    /\ connecting[c] = "awaitConnect"
    /\ \E device \in Devices : connectedDevice' = device
    /\ connecting' = [connecting EXCEPT ![c] = "awaitDiscover"]
    /\ UNCHANGED << isConnected, disconnecting >>
    /\ UNCHANGED << scan, screen, engine, store >>

\* the discovery resolves: stopDeviceScan, setIsConnected(true)
DiscoverResolved(c) ==
    /\ connecting[c] = "awaitDiscover"
    /\ scanning' = FALSE
    /\ isConnected' = TRUE
    /\ connecting' = [connecting EXCEPT ![c] = "idle"]
    /\ UNCHANGED << connectedDevice, disconnecting, allDevices >>
    /\ UNCHANGED << screen, engine, store >>

\* either await of connectToDevice throws: the catch block; the screen, if it
\* was shown, is unmounted and loses its selection
ConnectFailed(c) ==
    /\ connecting[c] \in {"awaitConnect", "awaitDiscover"}
    /\ isConnected' = FALSE
    /\ connectedDevice' = NullDevice
    /\ connecting' = [connecting EXCEPT ![c] = "idle"]
    /\ selectedImageId' = NoImage
    /\ UNCHANGED << disconnecting, sendAlerts >>
    /\ UNCHANGED << scan, engine, store >>

\* onDeviceDisconnected, called by the monitor of a device that was connected
OnDeviceDisconnected ==
    /\ connectedDevice # NullDevice
    /\ connectedDevice' = NullDevice
    /\ isConnected' = FALSE
    /\ selectedImageId' = NoImage
    /\ UNCHANGED << connecting, disconnecting, sendAlerts >>
    /\ UNCHANGED << scan, engine, store >>

\* disconnectDevice with a device connected, up to the await of
\* cancelConnection; with no device it only logs
DisconnectDevice ==
    /\ connectedDevice # NullDevice
    /\ disconnecting = "idle"
    /\ disconnecting' = "awaitCancel"
    /\ UNCHANGED << connectedDevice, isConnected, connecting >>
    /\ UNCHANGED << scan, screen, engine, store >>

\* cancelConnection resolves: setConnectedDevice(null), setIsConnected(false)
CancelConnectionResolved ==
    /\ disconnecting = "awaitCancel"
    /\ connectedDevice' = NullDevice
    /\ isConnected' = FALSE
    /\ disconnecting' = "idle"
    /\ selectedImageId' = NoImage
    /\ UNCHANGED << connecting, sendAlerts >>
    /\ UNCHANGED << scan, engine, store >>

\* cancelConnection throws: the catch block only logs
CancelConnectionFailed ==
    /\ disconnecting = "awaitCancel"
    /\ disconnecting' = "idle"
    /\ UNCHANGED << connectedDevice, isConnected, connecting >>
    /\ UNCHANGED << scan, screen, engine, store >>

\* handleImageSelect: a tap on an image of the gallery
HandleImageSelect(imageId) ==
    /\ ScreenShown
    /\ IF ~isStreaming
       THEN selectedImageId' = imageId
       ELSE selectedImageId' = selectedImageId
    /\ UNCHANGED sendAlerts
    /\ UNCHANGED << conn, scan, engine, store >>

\* handleSendImage: a press of the Send button while it is not disabled opens
\* an alert whose Send button holds the byteData of the selected image and the
\* handleStartStreaming of this render, with its connectedDevice
HandleSendImage ==
    /\ ScreenShown
    /\ SendEnabled
    /\ Len(sendAlerts) < MaxAlerts
    /\ sendAlerts' = Append(sendAlerts,
                            [image |-> selectedImageId, device |-> connectedDevice])
    /\ UNCHANGED selectedImageId
    /\ UNCHANGED << conn, scan, engine, store >>

\* the Send button of the alert on top: onStartStreaming(selectedImage.byteData),
\* that is handleStartStreaming, which calls startStreamingData when its
\* connectedDevice is not null
AlertSend ==
    /\ sendAlerts # <<>>
    /\ LET alert == sendAlerts[Len(sendAlerts)]
       IN IF alert.device # NullDevice
          THEN \E s \in {1, 2} :
                  StartStreamingData(s, alert.device, ImageByteData(alert.image))
          ELSE UNCHANGED engine
    /\ sendAlerts' = SubSeq(sendAlerts, 1, Len(sendAlerts) - 1)
    /\ UNCHANGED selectedImageId
    /\ UNCHANGED << conn, scan, store >>

\* the Cancel button of the alert on top
AlertCancel ==
    /\ sendAlerts # <<>>
    /\ sendAlerts' = SubSeq(sendAlerts, 1, Len(sendAlerts) - 1)
    /\ UNCHANGED selectedImageId
    /\ UNCHANGED << conn, scan, engine, store >>

(* ------------------------------------------------------------------ *)
(* The device scan                                                     *)
(* ------------------------------------------------------------------ *)

\* the name of the frame the scan looks for
TargetName == "Khung ảnh của Hà"

\* device.name or device.localName when the advertisement carries none
NullName == "null"

\* the devices a scan callback can report: two ids, each under any pair of names
ScanDevices ==
    [id : {"d1", "d2"},
     name : {TargetName, "Other frame", NullName},
     localName : {TargetName, "Other frame", NullName}]

\* isDuplicteDevice that compares names
isDuplicteDeviceByName(devices, nextDevice) ==
    \E k \in 1..Len(devices) : nextDevice.name = devices[k].name

\* isDuplicteDevice: findIndex(device => nextDevice.id === device.id) > -1
isDuplicteDevice(devices, nextDevice) ==
    \E k \in 1..Len(devices) : nextDevice.id = devices[k].id

\* scanForPeripherals: bleManager.startDeviceScan
ScanForPeripherals ==
    /\ scanning' = TRUE
    /\ UNCHANGED allDevices
    /\ UNCHANGED << conn, screen, engine, store >>

\* the callback of the scan with a device (an error is only logged; a
\* callback with no device changes nothing)
ScanCallback(device) ==
    /\ scanning
    /\ IF device.localName = TargetName \/ device.name = TargetName
       THEN allDevices' = IF ~isDuplicteDevice(allDevices, device)
                          THEN Append(allDevices, device)
                          ELSE allDevices
       ELSE allDevices' = allDevices
    /\ UNCHANGED scanning
    /\ UNCHANGED << conn, screen, engine, store >>

(* ------------------------------------------------------------------ *)
(* Specifications                                                      *)
(* ------------------------------------------------------------------ *)

PayloadSeeds == {11}

\* a caller that makes up to MaxSessions calls, each after the one before has returned
Call ==
    \E s \in Sessions, device \in Devices \cup {NullDevice},
       len \in SmallLens, seed \in PayloadSeeds :
        /\ \A o \in Sessions : sess[o].pc \in Terminal \cup {"idle"}
        /\ StartStreamingData(s, device, Payload(len, seed))
        /\ UNCHANGED ui

\* a caller that makes one call
CallOnce ==
    \E device \in Devices \cup {NullDevice}, len \in SingleLens, seed \in PayloadSeeds :
        StartStreamingData(1, device, Payload(len, seed)) /\ UNCHANGED ui

MtuReturns == \E s \in Sessions, granted \in GrantedMTUs :
    MtuResolved(s, granted) /\ UNCHANGED ui

MtuThrows == \E s \in Sessions, err \in Errors :
    MtuFailed(s, err) /\ UNCHANGED ui

WriteReturns == \E s \in Sessions :
    ChunkAcked(s) /\ UNCHANGED ui

WriteThrows == \E s \in Sessions, err \in Errors :
    ChunkFailed(s, err) /\ UNCHANGED ui

DelayReturns == \E s \in Sessions :
    DelayElapsed(s) /\ UNCHANGED ui

EndReturns == \E s \in Sessions :
    EndAcked(s) /\ UNCHANGED ui

EndThrows == \E s \in Sessions, err \in Errors :
    EndFailed(s, err) /\ UNCHANGED ui

TimerRuns == \E t \in timers :
    ResetTimerFired(t) /\ UNCHANGED ui

Steps ==
    \/ MtuReturns
    \/ MtuThrows
    \/ WriteReturns
    \/ WriteThrows
    \/ DelayReturns
    \/ EndReturns
    \/ EndThrows
    \/ TimerRuns

Next == Call \/ Steps

Spec == Init /\ [][Next]_vars

NextOne == CallOnce \/ Steps

SpecOne == Init /\ [][NextOne]_vars

\* every awaited primitive eventually returns or throws
PrimitivesSettle ==
    /\ WF_vars(MtuReturns \/ MtuThrows)
    /\ WF_vars(WriteReturns \/ WriteThrows)
    /\ WF_vars(DelayReturns)
    /\ WF_vars(EndReturns \/ EndThrows)

FairSpecOne == SpecOne /\ PrimitivesSettle

\* a caller that makes a first call and, without awaiting it, a second one
CallOverlapping ==
    \E s \in {1, 2}, device \in Devices \cup {NullDevice},
       len \in SmallLens, seed \in PayloadSeeds :
        StartStreamingData(s, device, Payload(len, seed)) /\ UNCHANGED ui

NextOverlap == CallOverlapping \/ Steps

SpecOverlap == Init /\ [][NextOverlap]_vars

\* the gallery taps
ImageSelected == \E imageId \in ImageIds : HandleImageSelect(imageId)

\* connectToDevice is called once a device of the modal is pressed, on the
\* connection screen
ScreenConnect == ~ScreenShown /\ ConnectToDevice(1)

ConnectReturns == \E c \in ConnectIds : ConnectResolved(c)

DiscoverReturns == \E c \in ConnectIds : DiscoverResolved(c)

ConnectThrows == \E c \in ConnectIds : ConnectFailed(c)

\* the user and the device: connection, selection, Send button and its alert
Screen ==
    \/ ScreenConnect
    \/ ConnectReturns
    \/ DiscoverReturns
    \/ ConnectThrows
    \/ OnDeviceDisconnected
    \/ ImageSelected
    \/ HandleSendImage
    \/ AlertSend
    \/ AlertCancel

NextScreen == Screen \/ Steps

\* transfers started only through the Send button of ConnectedDeviceScreen
SpecScreen == Init /\ [][NextScreen]_vars

\* a caller of the hook that may call connectToDevice at any time
ConnectCalled == \E c \in ConnectIds : ConnectToDevice(c)

DeviceScanned == \E device \in ScanDevices : ScanCallback(device)

\* the hook without transfers: scan, connection, disconnection
NextBLE ==
    \/ ScanForPeripherals
    \/ DeviceScanned
    \/ ConnectCalled
    \/ ConnectReturns
    \/ DiscoverReturns
    \/ ConnectThrows
    \/ OnDeviceDisconnected
    \/ DisconnectDevice
    \/ CancelConnectionResolved
    \/ CancelConnectionFailed

SpecBLE == Init /\ [][NextBLE]_vars

(* ------------------------------------------------------------------ *)
(* Observations used by the properties                                 *)
(* ------------------------------------------------------------------ *)

\* activation s got past the MTU request and built its chunks
ChunksBuilt(s) == \E k \in MtuIdx(s) : mtuRequests[k].st = "resolved"

RECURSIVE Concat(_)
Concat(seqs) ==
    IF Len(seqs) = 0 THEN <<>>
    ELSE Concat(SubSeq(seqs, 1, Len(seqs) - 1)) \o seqs[Len(seqs)]

RECURSIVE Pick(_, _, _)
\* the entries of log, in order, whose index is in idx
Pick(log, idx, k) ==
    IF k > Len(log) THEN <<>>
    ELSE (IF k \in idx THEN <<log[k]>> ELSE <<>>) \o Pick(log, idx, k + 1)

\* the writes activation s issued, in issue order
WritesOf(s) == Pick(writes, WriteIdx(s), 1)

\* the chunk writes activation s issued, in issue order
ChunkWritesOf(s) == Pick(writes, {k \in WriteIdx(s) : writes[k].kind = "chunk"}, 1)

EndWritesOf(s) == Pick(writes, {k \in WriteIdx(s) : writes[k].kind = "end"}, 1)

CeilDiv(a, b) == (a + b - 1) \div b

(* ------------------------------------------------------------------ *)
(* Properties                                                          *)
(* ------------------------------------------------------------------ *)

\* C1: once an activation with a non-empty payload of length L has built its
\* chunks, there are exactly ceil(L/300) of them, every chunk but the last
\* has 300 bytes, the last has 1..300 bytes, the chunks concatenated in order
\* are the payload, and the chunk writes issued so far carry the chunks in
\* that order; 700 bytes gives lengths 300, 300, 100 and 15000 bytes gives 50
\* chunks of 300.
C1_ChunksPartitionPayload ==
    \A s \in Sessions :
        (ChunksBuilt(s) /\ Len(sess[s].byteData) > 0) =>
            LET data   == sess[s].byteData
                chunks == sess[s].chunks
                n      == Len(chunks)
                sent   == ChunkWritesOf(s)
            IN /\ n = CeilDiv(Len(data), limitBytes)
               /\ \A k \in 1..(n - 1) : Len(chunks[k]) = limitBytes
               /\ Len(chunks[n]) \in 1..limitBytes
               /\ Concat(chunks) = data
               /\ Len(sent) <= n
               /\ \A k \in 1..Len(sent) : sent[k].value = bytesToBase64(chunks[k])
               /\ (Len(data) = 700) =>
                     [k \in 1..n |-> Len(chunks[k])] = <<300, 300, 100>>
               /\ (Len(data) = 15000) =>
                     /\ n = 50
                     /\ \A k \in 1..n : Len(chunks[k]) = 300

\* a 700-byte transfer has completed with three chunk writes acknowledged
C1_Witness ==
    \E s \in Sessions :
        /\ sess[s].pc = "completed"
        /\ Len(sess[s].byteData) = 700
        /\ Len(ChunkWritesOf(s)) = 3
        /\ \A k \in 1..3 : ChunkWritesOf(s)[k].st = "acked"

\* C2: the writes of one activation are strictly sequential and in payload
\* order: whenever the activation has issued a write, every write it issued
\* before has been acknowledged, so at most one of its writes is outstanding,
\* and its k-th chunk write carries bytes 300(k-1) .. 300k-1 of the payload.
C2_WritesSequentialInOrder ==
    \A s \in Sessions :
        LET w == WritesOf(s)
            c == ChunkWritesOf(s)
        IN /\ Cardinality(PendingIdx(s)) <= 1
           /\ \A k \in 1..(Len(w) - 1) : w[k].st = "acked"
           /\ \A k \in 1..Len(c) :
                 c[k].value = bytesToBase64(Slice(sess[s].byteData,
                                  limitBytes * (k - 1), limitBytes * k))

\* two overlapping activations each await a write; the first is on its
\* second chunk, whose write was issued after the first chunk was acknowledged
C2_Witness ==
    /\ Cardinality(PendingIdx(1)) = 1
    /\ Cardinality(PendingIdx(2)) = 1
    /\ Len(ChunkWritesOf(1)) = 2
    /\ ChunkWritesOf(1)[1].st = "acked"
    /\ ChunkWritesOf(1)[2].st = "pending"

\* the base64 text of FF FF FF FF, "/////w=="
EndMarkerText == <<63, 63, 63, 63, 63, 48, 64, 64>>

\* C3: an activation issues at most one end marker write; when it has issued
\* it, every chunk of the payload has been written and acknowledged before
\* and it is the last write of the activation; a completed activation has
\* issued it and seen it acknowledged.
C3_OneEndMarkerLast ==
    \A s \in Sessions :
        LET w == WritesOf(s)
            e == EndWritesOf(s)
        IN /\ Len(e) <= 1
           /\ (Len(e) = 1) =>
                 /\ Len(w) = Len(sess[s].chunks) + 1
                 /\ w[Len(w)].kind = "end"
                 /\ w[Len(w)].value = EndMarkerText
                 /\ \A k \in 1..(Len(w) - 1) :
                       w[k].kind = "chunk" /\ w[k].st = "acked"
           /\ (sess[s].pc = "completed") => (Len(e) = 1 /\ e[1].st = "acked")

\* a transfer of three chunks has completed: four writes, the end marker last
C3_Witness ==
    \E s \in Sessions :
        /\ sess[s].pc = "completed"
        /\ Len(sess[s].chunks) = 3
        /\ Len(WritesOf(s)) = 4
        /\ WritesOf(s)[4].kind = "end"

RECURSIVE SumLens(_, _)
\* total length of the first n chunks
SumLens(chunks, n) == IF n = 0 THEN 0 ELSE SumLens(chunks, n - 1) + Len(chunks[n])

\* C5: when the write of chunk k (0-indexed) has failed, the activation is
\* Failed and its count of bytes sent is the total length of chunks 0..k-1.
C5_FailedChunkNotCounted ==
    \A s \in Sessions :
        LET c == ChunkWritesOf(s)
        IN \A k \in 1..Len(c) :
              (c[k].st = "failed") =>
                  /\ sess[s].pc = "failed"
                  /\ sess[s].count = SumLens(sess[s].chunks, k - 1)

\* the write of chunk 2 of a 700-byte payload failed after 600 bytes were sent
C5_Witness ==
    \E s \in Sessions :
        /\ Len(sess[s].byteData) = 700
        /\ Len(ChunkWritesOf(s)) = 3
        /\ ChunkWritesOf(s)[3].st = "failed"
        /\ sess[s].pc = "failed"
        /\ sess[s].count = 600

\* C4: when every awaited primitive eventually returns or throws, every
\* activation that was called eventually is Completed, Failed or rejected,
\* with isStreaming false.
C4_TransferTerminates ==
    \A s \in Sessions :
        (sess[s].pc # "idle") ~> (sess[s].pc \in Terminal /\ ~isStreaming)

\* a transfer of several chunks is in flight between two writes
C4_Witness ==
    \E s \in Sessions :
        /\ sess[s].pc = "awaitDelay"
        /\ isStreaming
        /\ sess[s].i + 1 < Len(sess[s].chunks)

\* a primitive of activation s has thrown
PrimitiveFailed(s) ==
    \/ \E k \in MtuIdx(s) : mtuRequests[k].st = "failed"
    \/ \E k \in WriteIdx(s) : writes[k].st = "failed"

\* C6: once a primitive of an activation has thrown, the activation is
\* Failed, the failed write is its last write, none of its writes is
\* outstanding, and from then on it issues no write and no MTU request; when
\* it was the MTU request that threw, the activation has issued no write.
C6_NoWriteAfterFailure ==
    /\ [](\A s \in Sessions :
            PrimitiveFailed(s) =>
               /\ sess[s].pc = "failed"
               /\ PendingIdx(s) = {}
               /\ \A k \in 1..Len(WritesOf(s)) :
                     (WritesOf(s)[k].st = "failed") => (k = Len(WritesOf(s)))
               /\ (\E k \in MtuIdx(s) : mtuRequests[k].st = "failed") =>
                     (WriteIdx(s) = {}))
    /\ [][\A s \in Sessions :
            (sess[s].pc = "failed") =>
               /\ sess'[s] = sess[s]
               /\ WritesOf(s)' = WritesOf(s)
               /\ MtuIdx(s)' = MtuIdx(s)]_vars

\* one activation failed at its MTU request and issued nothing; the other
\* failed at its second chunk and went on to issue nothing
C6_Witness ==
    \E s, o \in Sessions :
        /\ sess[s].pc = "failed"
        /\ \E k \in MtuIdx(s) : mtuRequests[k].st = "failed"
        /\ WriteIdx(s) = {}
        /\ sess[o].pc = "failed"
        /\ Len(WritesOf(o)) = 2
        /\ WritesOf(o)[2].st = "failed"
        /\ Len(sess[o].chunks) = 2

\* C7: no error escapes the call: the promise an activation returned is
\* never rejected, and once a primitive has thrown the promise is fulfilled,
\* isStreaming is false and the status message is the failure message until
\* the reset timer of the activation clears it.
C7_ErrorsCaught ==
    \A s \in Sessions :
        /\ sess[s].promise # "rejected"
        /\ PrimitiveFailed(s) =>
              /\ sess[s].promise = "fulfilled"
              /\ sess[s].pc = "failed"
              /\ sess[s].error \in Errors
              /\ ~isStreaming
              /\ streamingStatus =
                    IF [sess |-> s, delay |-> FailureResetDelay] \in timers
                    THEN "Error: Streaming failed" ELSE ""

\* a write has thrown and the call has returned normally, failure message shown
C7_Witness ==
    \E s \in Sessions :
        /\ \E k \in WriteIdx(s) : writes[k].st = "failed"
        /\ sess[s].promise = "fulfilled"
        /\ streamingStatus = "Error: Streaming failed"
        /\ ~isStreaming

\* C8: each acknowledged chunk write publishes a progress that is not below
\* the progress the activation published before, the acknowledgement of the
\* last chunk publishes 100, and the acknowledgement of the end marker write
\* publishes exactly 100.
C8_ProgressMonotone ==
    [][\A s \in Sessions :
          /\ (sess[s].pc = "awaitWrite" /\ sess'[s].pc = "awaitDelay") =>
                /\ streamingProgress' = sess'[s].published
                /\ sess'[s].published >= sess[s].published
                /\ sess'[s].published <= 100
                /\ (sess[s].i + 1 = Len(sess[s].chunks)) => (streamingProgress' = 100)
          /\ (sess[s].pc = "awaitEnd" /\ sess'[s].pc = "completed") =>
                /\ streamingProgress' = 100
                /\ sess[s].published <= 100]_vars

\* a 700-byte transfer has published 43, then 86, and is awaiting its last chunk write
C8_Witness ==
    \E s \in Sessions :
        /\ Len(sess[s].byteData) = 700
        /\ sess[s].pc = "awaitWrite"
        /\ sess[s].i = 2
        /\ sess[s].published = 86
        /\ streamingProgress = 86

\* C9: the count of bytes sent of an activation lies in 0..len(payload) and
\* never decreases; the acknowledgement of the end marker write leaves it
\* unchanged, and in a completed activation it is len(payload).
C9_BytesSentBounded ==
    /\ [](\A s \in Sessions :
            /\ sess[s].count \in 0..Len(sess[s].byteData)
            /\ (sess[s].pc = "completed") => (sess[s].count = Len(sess[s].byteData)))
    /\ [][\A s \in Sessions :
            /\ sess'[s].count >= sess[s].count
            /\ (sess[s].pc = "awaitEnd") => (sess'[s].count = sess[s].count)]_vars

\* a 301-byte transfer has completed with 301 bytes counted after three writes
C9_Witness ==
    \E s \in Sessions :
        /\ sess[s].pc = "completed"
        /\ Len(sess[s].byteData) = 301
        /\ sess[s].count = 301
        /\ Len(WritesOf(s)) = 3

\* C10: a call with no device ends at once, fulfilled, having issued no MTU
\* request and no write and scheduled no timer; the step of the call
\* publishes the no-device status message and isStreaming false.
C10_NoDeviceRejected ==
    /\ [](\A s \in Sessions :
            (sess[s].pc # "idle" /\ sess[s].device = NullDevice) =>
               /\ sess[s].pc = "rejected"
               /\ sess[s].promise = "fulfilled"
               /\ MtuIdx(s) = {}
               /\ WriteIdx(s) = {}
               /\ \A t \in timers : t.sess # s)
    /\ [][\A s \in Sessions :
            (sess[s].pc = "idle" /\ sess'[s].pc # "idle"
                /\ sess'[s].device = NullDevice) =>
               /\ streamingStatus' = "Error: No device connected"
               /\ isStreaming' = FALSE
               /\ mtuRequests' = mtuRequests
               /\ writes' = writes
               /\ timers' = timers]_vars

\* a call with no device was made while another transfer was in flight
C10_Witness ==
    \E s, o \in Sessions :
        /\ sess[s].pc = "rejected"
        /\ sess[s].device = NullDevice
        /\ streamingStatus = "Error: No device connected"
        /\ ~isStreaming
        /\ sess[o].pc = "awaitWrite"

\* C11 as stated: every step that ends an activation without completing it,
\* the call with no device included, publishes the failure message
\* "Error: Streaming failed" and schedules the reset after the failure delay.
C11_EveryFailureResets ==
    [][\A s \in Sessions :
          (sess[s].pc \notin Terminal /\ sess'[s].pc \in {"failed", "rejected"}) =>
              /\ streamingStatus' = "Error: Streaming failed"
              /\ [sess |-> s, delay |-> FailureResetDelay] \in timers']_vars

\* C11: an activation is Failed exactly when one of its primitives has
\* thrown; it then shows "Error: Streaming failed" with isStreaming false and
\* the progress it had reached while its reset, scheduled after the failure
\* delay and no other, is pending, and the empty status and progress 0 once
\* the reset has run. An activation called with no device shows
\* "Error: No device connected" and has no reset pending, ever.
C11_ThrownFailureResets ==
    \A s \in Sessions :
        /\ (sess[s].pc = "failed") <=> PrimitiveFailed(s)
        /\ (sess[s].pc = "failed") =>
              /\ ~isStreaming
              /\ \A t \in timers : t.sess = s => t.delay = FailureResetDelay
              /\ IF [sess |-> s, delay |-> FailureResetDelay] \in timers
                 THEN /\ streamingStatus = "Error: Streaming failed"
                      /\ streamingProgress = sess[s].published
                      /\ pub[s].statuses[Len(pub[s].statuses)] = "Error: Streaming failed"
                 ELSE /\ streamingStatus = ""
                      /\ streamingProgress = 0
                      /\ pub[s].statuses[Len(pub[s].statuses)] = ""
                      /\ pub[s].progresses[Len(pub[s].progresses)] = 0
        /\ (sess[s].pc = "rejected") =>
              /\ streamingStatus = "Error: No device connected"
              /\ \A t \in timers : t.sess # s

\* a transfer that had published a progress above 0 failed, and its reset has
\* cleared the status message and put the progress back to 0
C11_Witness ==
    \E s \in Sessions :
        /\ sess[s].pc = "failed"
        /\ sess[s].published > 0
        /\ timers = {}
        /\ streamingStatus = ""
        /\ streamingProgress = 0

\* C12: a completed activation has isStreaming false; the acknowledgement of
\* its end marker write published progress 100 and the success message and
\* scheduled the reset after the success delay and no other. While that reset
\* is pending the observer sees 100 and the success message; once it has run
\* the observer sees the empty status and progress 0.
C12_CompletionPublishedThenReset ==
    \A s \in Sessions :
        (sess[s].pc = "completed") =>
            LET sts == pub[s].statuses
                prs == pub[s].progresses
            IN /\ ~isStreaming
               /\ \A t \in timers : t.sess = s => t.delay = SuccessResetDelay
               /\ IF [sess |-> s, delay |-> SuccessResetDelay] \in timers
                  THEN /\ streamingProgress = 100
                       /\ streamingStatus = "Streaming completed successfully!"
                       /\ prs[Len(prs)] = 100
                       /\ sts[Len(sts)] = "Streaming completed successfully!"
                  ELSE /\ streamingProgress = 0
                       /\ streamingStatus = ""
                       /\ prs[Len(prs)] = 0 /\ prs[Len(prs) - 1] = 100
                       /\ sts[Len(sts)] = ""
                       /\ sts[Len(sts) - 1] = "Streaming completed successfully!"

\* a transfer of several chunks completed, showed 100, and its reset has run
C12_Witness ==
    \E s \in Sessions :
        /\ sess[s].pc = "completed"
        /\ Len(sess[s].chunks) > 1
        /\ pub[s].progresses[Len(pub[s].progresses) - 1] = 100
        /\ streamingProgress = 0
        /\ streamingStatus = ""
        /\ ~isStreaming

\* the write of activation s that threw is the write of chunk index k (the
\* end marker write counts as index Len(chunks))
FailedAtChunk(s, k) ==
    /\ sess[s].pc = "failed"
    /\ \E j \in WriteIdx(s) : writes[j].st = "failed"
    /\ sess[s].i = k

\* C13: two activations on the same payload whose write at the same chunk
\* index threw, one because the peripheral disconnected and one because it
\* rejected the write, have passed the same sequence of status messages and
\* the same sequence of progress values to the observer, compared when the
\* reset of both or of neither has run.
C13_FailureCauseNotPublished ==
    \A s, o \in Sessions :
        \A k \in 0..(MaxFullChunks + 1) :
            ( /\ FailedAtChunk(s, k) /\ FailedAtChunk(o, k)
              /\ sess[s].byteData = sess[o].byteData
              /\ sess[s].error = "disconnected" /\ sess[o].error = "rejected"
              /\ (\E t \in timers : t.sess = s) <=> (\E t \in timers : t.sess = o) )
            => /\ pub[s].statuses = pub[o].statuses
               /\ pub[s].progresses = pub[o].progresses

\* the second chunk write of two 301-byte transfers threw, once for a
\* disconnection and once for a rejection, after each had published a progress
C13_Witness ==
    \E s, o \in Sessions :
        /\ FailedAtChunk(s, 1) /\ FailedAtChunk(o, 1)
        /\ Len(sess[s].byteData) = 301 /\ Len(sess[o].byteData) = 301
        /\ sess[s].error = "disconnected" /\ sess[o].error = "rejected"
        /\ Len(pub[s].progresses) = 2 /\ Len(pub[o].progresses) = 2
        /\ Len(pub[s].statuses) = 5
        /\ timers = {[sess |-> s, delay |-> FailureResetDelay],
                     [sess |-> o, delay |-> FailureResetDelay]}

(* ------------------------------------------------------------------ *)
(* The transport encoding read back                                    *)
(* ------------------------------------------------------------------ *)

\* the char codes of group g (0-based) of a base64 text: three codes from
\* four characters, the second and the third left out where the text has "="
Base64DecodeGroup(text, g) ==
    LET enc1 == text[4 * g + 1]
        enc2 == text[4 * g + 2]
        enc3 == text[4 * g + 3]
        enc4 == text[4 * g + 4]
        chr1 == enc1 * 4 + (enc2 \div 16)
        chr2 == (enc2 % 16) * 16 + (enc3 \div 4)
        chr3 == (enc3 % 4) * 64 + enc4
    IN <<chr1>> \o (IF enc3 # PadChar THEN <<chr2>> ELSE <<>>)
                \o (IF enc4 # PadChar THEN <<chr3>> ELSE <<>>)

\* base64.decode: the char codes of a base64 text, group by group
Base64Decode(text) ==
    Concat([g \in 1..(Len(text) \div 4) |-> Base64DecodeGroup(text, g - 1)])

\* longest payload of the transfers that exercise the encoding byte by byte
CodecMaxLen == 3

\* the bytes around the byte that takes every value
CodecFill == {0, 255}

\* payloads of 1..CodecMaxLen bytes in which one byte, at any position, takes
\* every value 0..255 and the other bytes are 0 or 255
CodecPayloads ==
    UNION { { [k \in 1..n |-> IF k = p THEN v ELSE f[k]] :
                p \in 1..n, v \in 0..255, f \in [1..n -> CodecFill] } :
            n \in 1..CodecMaxLen }

\* one call of startStreamingData with a payload of CodecPayloads
CallBytes ==
    \E byteData \in CodecPayloads :
        StartStreamingData(1, "frame", byteData) /\ UNCHANGED ui

NextBytes == CallBytes \/ Steps

SpecBytes == Init /\ [][NextBytes]_vars

\* C14: the text of every chunk write decodes to the bytes of the chunk it
\* was made from, and the text of the end marker write decodes to the end
\* marker, whatever the values 0..255 of the bytes and whatever the padding.
C14_EncodingRoundTrip ==
    \A s \in Sessions :
        /\ \A k \in 1..Len(ChunkWritesOf(s)) :
              Base64Decode(ChunkWritesOf(s)[k].value) = sess[s].chunks[k]
        /\ \A k \in 1..Len(EndWritesOf(s)) :
              Base64Decode(EndWritesOf(s)[k].value) = endMarker

\* a two-byte chunk with both bytes above 127 was written as three characters
\* and one "="
C14_Witness ==
    \E s \in Sessions :
        /\ sess[s].byteData = <<255, 200>>
        /\ Len(ChunkWritesOf(s)) = 1
        /\ ChunkWritesOf(s)[1].value = <<63, 60, 32, PadChar>>
        /\ ChunkWritesOf(s)[1].st = "acked"

\* activation s is between its call and its end
InFlight(s) == sess[s].pc \in {"awaitMTU", "awaitWrite", "awaitDelay", "awaitEnd"}

\* C15 as stated: the reset timer of a finished activation, when it runs
\* while a later activation is in flight, leaves the published progress and
\* status message as they are; while an activation is in flight the published
\* progress changes only in a step of that activation.
C15_ResetLeavesLaterSession ==
    [][/\ \A t \in timers :
             (t \notin timers' /\ \E s \in Sessions : s # t.sess /\ InFlight(s)) =>
                 /\ streamingProgress' = streamingProgress
                 /\ streamingStatus' = streamingStatus
       /\ \A s \in Sessions :
             (InFlight(s) /\ streamingProgress' # streamingProgress) =>
                 sess'[s] # sess[s]]_vars

\* C16 as stated: an activation with an empty payload that has gone through
\* its chunk loop has published the progress NaN.
C16_EmptyPayloadPublishesNaN ==
    \A s \in Sessions :
        (ChunksBuilt(s) /\ Len(sess[s].byteData) = 0) =>
            \E k \in 1..Len(pub[s].progresses) : pub[s].progresses[k] = NotANumber

\* C16: no activation ever publishes NaN. An activation with an empty
\* payload builds no chunk, so the body of its loop, where the division is,
\* never runs: it issues no chunk write, counts 0 bytes, writes only the end
\* marker and publishes progress 0 at its call and 100 at its completion.
C16_EmptyPayloadNoDivision ==
    \A s \in Sessions :
        /\ \A k \in 1..Len(pub[s].progresses) : pub[s].progresses[k] \in 0..100
        /\ streamingProgress \in 0..100
        /\ (sess[s].pc # "idle" /\ sess[s].device # NullDevice
               /\ Len(sess[s].byteData) = 0) =>
              /\ sess[s].chunks = <<>>
              /\ sess[s].count = 0
              /\ \A k \in WriteIdx(s) : writes[k].kind = "end"
              /\ ChunksBuilt(s) => Len(WritesOf(s)) = 1
              /\ \A k \in 1..Len(pub[s].statuses) :
                    pub[s].statuses[k] # StreamingStatusText(NotANumber, 0, 0)
              /\ (sess[s].pc = "completed") =>
                    \E r \in {<<0, 100>>, <<0, 100, 0>>} : pub[s].progresses = r

\* a transfer of an empty payload completed after its end marker write alone,
\* having published 0 and then 100
C16_Witness ==
    \E s \in Sessions :
        /\ sess[s].pc = "completed"
        /\ Len(sess[s].byteData) = 0
        /\ pub[s].progresses = <<0, 100>>
        /\ Len(WritesOf(s)) = 1
        /\ WritesOf(s)[1].kind = "end"
        /\ WritesOf(s)[1].st = "acked"

\* the status of the specification that a status message stands for
StatusOf(msg) ==
    CASE msg = "Requesting MTU..."                 -> "NegotiatingMTU"
      [] msg = "Preparing data chunks..."          -> "Preparing"
      [] msg = "Sending completion signal..."      -> "Finalizing"
      [] msg = "Streaming completed successfully!" -> "Completed"
      [] msg = "Error: Streaming failed"           -> "Failed"
      [] msg = "Error: No device connected"        -> "Failed"
      [] OTHER                                     -> "Streaming"

\* the status of activation s: that of the last status message it set, the
\* clearing by its reset timer apart
SessionStatus(s) ==
    LET sts == pub[s].statuses
        n   == Len(sts)
    IN IF n = 0 THEN "Idle"
       ELSE IF sts[n] = "" THEN StatusOf(sts[n - 1]) ELSE StatusOf(sts[n])

\* C17 as stated: every step that issues a write of an activation leaves the
\* activation in status Preparing or Streaming.
C17_WritesOnlyPreparingOrStreaming ==
    [][\A s \in Sessions :
          (WriteIdx(s)' # WriteIdx(s)) =>
              SessionStatus(s)' \in {"Preparing", "Streaming"}]_vars

\* C17: a step that issues a chunk write of an activation leaves it in status
\* Streaming and a step that issues its end marker write leaves it in status
\* Finalizing; an activation with a write outstanding is Streaming or
\* Finalizing, and an activation that is Idle, NegotiatingMTU or Preparing has
\* issued no write.
C17_WritesOnlyStreamingOrFinalizing ==
    /\ [](\A s \in Sessions :
            /\ (PendingIdx(s) # {}) =>
                  SessionStatus(s) \in {"Streaming", "Finalizing"}
            /\ (SessionStatus(s) \in {"Idle", "NegotiatingMTU", "Preparing"}) =>
                  (WriteIdx(s) = {}))
    /\ [][\A s \in Sessions :
            (WriteIdx(s)' # WriteIdx(s)) =>
               /\ Len(writes') = Len(writes) + 1
               /\ writes'[Len(writes')].sess = s
               /\ SessionStatus(s)' =
                     IF writes'[Len(writes')].kind = "chunk"
                     THEN "Streaming" ELSE "Finalizing"]_vars

\* the end marker write of a transfer of several chunks is outstanding and
\* the transfer is Finalizing
C17_Witness ==
    \E s \in Sessions :
        /\ SessionStatus(s) = "Finalizing"
        /\ Len(ChunkWritesOf(s)) > 1
        /\ Len(EndWritesOf(s)) = 1
        /\ EndWritesOf(s)[1].st = "pending"

\* C18: a call with a device made while another activation is in flight is
\* neither rejected nor queued: in the step of the call it becomes an
\* activation of its own with its MTU request issued, it takes over
\* isStreaming, progress and status message, and it leaves the activation in
\* flight and the writes as they are; from then on both proceed, so their
\* chunk writes can alternate in the order of the writes.
C18_NoMutualExclusion ==
    [][\A s \in Sessions :
          ( /\ sess[s].pc = "idle" /\ sess'[s].pc # "idle"
            /\ sess'[s].device # NullDevice
            /\ \E o \in Sessions : o # s /\ InFlight(o) ) =>
             /\ sess'[s].pc = "awaitMTU"
             /\ sess'[s].promise = "pending"
             /\ mtuRequests' = Append(mtuRequests,
                                 [sess |-> s, mtu |-> RequestedMTU, st |-> "pending"])
             /\ isStreaming' /\ streamingProgress' = 0
             /\ streamingStatus' = "Requesting MTU..."
             /\ writes' = writes
             /\ \A o \in Sessions : (o # s) => (sess'[o] = sess[o])]_vars

\* two transfers in flight on the same device: a chunk write of the second
\* lies between two chunk writes of the first
C18_Witness ==
    \E s, o \in Sessions :
        /\ s # o
        /\ sess[s].device = sess[o].device /\ sess[s].device # NullDevice
        /\ InFlight(s) /\ InFlight(o)
        /\ \E i, j, k \in 1..Len(writes) :
              /\ i < j /\ j < k
              /\ writes[i].sess = s /\ writes[j].sess = o /\ writes[k].sess = s
              /\ writes[i].kind = "chunk" /\ writes[j].kind = "chunk"
              /\ writes[k].kind = "chunk"

\* C20: an activation called with a device has, from its call on, exactly one
\* MTU request in the log, for 303 bytes; it has issued a write only if that
\* request has resolved; and the chunks it builds are 300 bytes long, the
\* last one apart, whether 23 or 303 bytes were granted.
C20_OneMtuRequestFixedChunkSize ==
    \A s \in Sessions :
        (sess[s].pc # "idle" /\ sess[s].device # NullDevice) =>
            /\ Cardinality(MtuIdx(s)) = 1
            /\ \A k \in MtuIdx(s) :
                  /\ mtuRequests[k].mtu = 303
                  /\ (WriteIdx(s) # {}) => (mtuRequests[k].st = "resolved")
            /\ ChunksBuilt(s) =>
                  /\ sess[s].mtuRequestRes \in GrantedMTUs
                  /\ Len(sess[s].chunks) = CeilDiv(Len(sess[s].byteData), 300)
                  /\ \A k \in 1..Len(sess[s].chunks) :
                        Len(sess[s].chunks[k]) =
                           Min(300, Len(sess[s].byteData) - 300 * (k - 1))

\* the peripheral granted 23 bytes and a chunk of 300 bytes was written and
\* acknowledged all the same
C20_Witness ==
    \E s \in Sessions :
        /\ sess[s].mtuRequestRes = 23
        /\ Len(ChunkWritesOf(s)) >= 1
        /\ Len(sess[s].chunks[1]) = 300
        /\ ChunkWritesOf(s)[1].st = "acked"
        /\ Cardinality(MtuIdx(s)) = 1

\* C19: at most one activation is in flight at any time, when every
\* transfer is started through the Send button of ConnectedDeviceScreen.
C19_AtMostOneInFlight ==
    Cardinality({s \in Sessions : InFlight(s)}) <= 1

(* ------------------------------------------------------------------ *)
(* A payload on which the published percentage meets a tie             *)
(* ------------------------------------------------------------------ *)

\* payload lengths of the transfers that check the percentage: 700 bytes, and
\* 12000 bytes, where 6900 bytes sent is 57.5 percent
TieLens == {700, 12000}

\* one call of startStreamingData with a payload of one of TieLens bytes
CallTie ==
    \E len \in TieLens, seed \in PayloadSeeds :
        StartStreamingData(1, "frame", Payload(len, seed)) /\ UNCHANGED ui

NextTie == CallTie \/ Steps

SpecTie == Init /\ [][NextTie]_vars

\* a / b rounded to the nearest integer, a half rounded up
RoundDiv(a, b) == (2 * a + b) \div (2 * b)

\* C21: the acknowledgement of a chunk write adds the length of the chunk to
\* the bytes sent and publishes round(100 * bytesSent / len(payload)).
C21_ProgressIsRoundedRatio ==
    [][\A s \in Sessions :
          (sess[s].pc = "awaitWrite" /\ sess'[s].pc = "awaitDelay") =>
              /\ sess'[s].count = sess[s].count + Len(sess[s].chunks[sess[s].i + 1])
              /\ streamingProgress' =
                    RoundDiv(100 * sess'[s].count, Len(sess[s].byteData))]_vars

\* C22: in every state the progress shown to the observer is an integer in
\* 0..100, and so is every value an activation with a non-empty payload has
\* passed to setStreamingProgress: the 0 of its call, the percentage of each
\* acknowledged chunk, the 100 of its completion and the 0 of its reset.
C22_ProgressInRange ==
    /\ streamingProgress \in 0..100
    /\ \A s \in Sessions :
          (Len(sess[s].byteData) > 0) =>
              /\ sess[s].published \in 0..100
              /\ \A k \in 1..Len(pub[s].progresses) :
                    pub[s].progresses[k] \in 0..100
              /\ (pub[s].progresses # <<>>) => (pub[s].progresses[1] = 0)

\* a 700-byte transfer has published 0, 43, 86, 100 for its chunks, 100 for
\* its completion and 0 for its reset
C22_Witness ==
    \E s \in Sessions :
        /\ Len(sess[s].byteData) = 700
        /\ pub[s].progresses = <<0, 43, 86, 100, 100, 0>>
        /\ streamingProgress = 0

\* C23: in every state, isConnected true implies connectedDevice not null.
C23_ConnectedHasDevice ==
    isConnected => (connectedDevice # NullDevice)

\* C30: allDevices never holds two entries with the same id, holds only
\* devices whose name or localName is the target name, and every step keeps
\* the entries it held, in place.
C30_ScanListDeduplicated ==
    /\ [](/\ \A j, k \in 1..Len(allDevices) :
               (allDevices[j].id = allDevices[k].id) => (j = k)
          /\ \A k \in 1..Len(allDevices) :
               \/ allDevices[k].name = "Khung ảnh của Hà"
               \/ allDevices[k].localName = "Khung ảnh của Hà")
    /\ [][/\ Len(allDevices') >= Len(allDevices)
          /\ \A k \in 1..Len(allDevices) : allDevices'[k] = allDevices[k]]_vars

\* two frames are listed, one known by its name and one by its localName,
\* after callbacks for both ids
C30_Witness ==
    /\ Len(allDevices) = 2
    /\ allDevices[1].name = TargetName /\ allDevices[1].localName = NullName
    /\ allDevices[2].name = "Other frame" /\ allDevices[2].localName = TargetName
    /\ allDevices[1].id # allDevices[2].id

(* ------------------------------------------------------------------ *)
(* Strings of the image library                                        *)
(*                                                                     *)
(* A string is the sequence of its characters.  ImageStorageService.ts *)
(* trims, lower-cases, splits and parses strings; each of these is     *)
(* computed here on the characters, as the JavaScript built-in does.   *)
(* ------------------------------------------------------------------ *)

\* the characters \s matches and trim() removes, among those of the model
WhiteSpace == {" ", "\t", "\n", "\r"}

\* the characters [\r\n] matches
LineBreaks == {"\n", "\r"}

LowerLetters ==
    << "a", "b", "c", "d", "e", "f", "g", "h", "i", "j", "k", "l", "m",
       "n", "o", "p", "q", "r", "s", "t", "u", "v", "w", "x", "y", "z" >>

UpperLetters ==
    << "A", "B", "C", "D", "E", "F", "G", "H", "I", "J", "K", "L", "M",
       "N", "O", "P", "Q", "R", "S", "T", "U", "V", "W", "X", "Y", "Z" >>

\* the digits of toString(16) and of parseInt, by value + 1
HexDigits ==
    << "0", "1", "2", "3", "4", "5", "6", "7", "8", "9",
       "a", "b", "c", "d", "e", "f" >>

MinOf(S) == CHOOSE m \in S : \A k \in S : m <= k

MaxOf(S) == CHOOSE m \in S : \A k \in S : k <= m

\* String.prototype.toLowerCase, one character
LowerChar(c) ==
    IF \E k \in 1..26 : UpperLetters[k] = c
    THEN LowerLetters[CHOOSE k \in 1..26 : UpperLetters[k] = c]
    ELSE c

\* String.prototype.toUpperCase, one character
UpperChar(c) ==
    IF \E k \in 1..26 : LowerLetters[k] = c
    THEN UpperLetters[CHOOSE k \in 1..26 : LowerLetters[k] = c]
    ELSE c

\* String.prototype.toLowerCase
toLowerCase(str) == [k \in 1..Len(str) |-> LowerChar(str[k])]

\* String.prototype.toUpperCase
toUpperCase(str) == [k \in 1..Len(str) |-> UpperChar(str[k])]

\* str without its longest prefix of characters of set
DropWhile(str, set) ==
    LET rest == { k \in 1..Len(str) : str[k] \notin set }
    IN  IF rest = {} THEN << >> ELSE SubSeq(str, MinOf(rest), Len(str))

\* String.prototype.trim
trim(str) ==
    LET rest == { k \in 1..Len(str) : str[k] \notin WhiteSpace }
    IN  IF rest = {} THEN << >> ELSE SubSeq(str, MinOf(rest), MaxOf(rest))

\* str.replace(/[set]+/g, ','): every maximal run of characters of set
\* becomes one comma
RECURSIVE ReplaceRuns(_, _)
ReplaceRuns(str, set) ==
    IF str = << >> THEN << >>
    ELSE IF Head(str) \in set
         THEN << "," >> \o ReplaceRuns(DropWhile(Tail(str), set), set)
         ELSE << Head(str) >> \o ReplaceRuns(Tail(str), set)

\* str.replace(/\s*,\s*/g, ','): a comma with the white space around it
\* becomes one comma; white space that no comma follows stays
RECURSIVE NormalizeCommas(_)
NormalizeCommas(str) ==
    IF str = << >> THEN << >>
    ELSE LET rest == DropWhile(str, WhiteSpace)
         IN  IF rest # << >> /\ Head(rest) = ","
             THEN << "," >> \o NormalizeCommas(DropWhile(Tail(rest), WhiteSpace))
             ELSE << Head(str) >> \o NormalizeCommas(Tail(str))

\* str.split(',')
RECURSIVE split(_)
split(str) ==
    LET commas == { k \in 1..Len(str) : str[k] = "," }
    IN  IF commas = {} THEN << str >>
        ELSE << SubSeq(str, 1, MinOf(commas) - 1) >>
                 \o split(SubSeq(str, MinOf(commas) + 1, Len(str)))

\* the value of a digit of parseInt, 36 for a character that is no digit
DigitValue(c) ==
    IF \E k \in 1..16 : HexDigits[k] = LowerChar(c)
    THEN (CHOOSE k \in 1..16 : HexDigits[k] = LowerChar(c)) - 1
    ELSE 36

\* the number the digits of str denote in the radix
RECURSIVE DigitsValue(_, _)
DigitsValue(str, radix) ==
    IF str = << >> THEN 0
    ELSE radix * DigitsValue(SubSeq(str, 1, Len(str) - 1), radix)
             + DigitValue(str[Len(str)])

\* parseInt(str, radix) for radix 10 and 16: leading white space is skipped,
\* then a sign, then for radix 16 a prefix 0x or 0X; the value is that of the
\* longest run of digits of the radix that follows.  The result is << >> for
\* NaN (no digit follows) and << n >> for the number n.
parseInt(str, radix) ==
    LET Value(sign, digits) ==
            IF digits = << >> THEN << >>
            ELSE << sign * DigitsValue(digits, radix) >>
        Digits(s2) ==
            LET stop == { k \in 1..Len(s2) : DigitValue(s2[k]) >= radix }
            IN  IF stop = {} THEN s2 ELSE SubSeq(s2, 1, MinOf(stop) - 1)
        Unsigned(sign, s1) ==
            Value(sign,
                  Digits(IF /\ radix = 16
                            /\ Len(s1) >= 2
                            /\ s1[1] = "0"
                            /\ s1[2] \in {"x", "X"}
                         THEN SubSeq(s1, 3, Len(s1))
                         ELSE s1))
        Signed(s0) ==
            IF s0 # << >> /\ Head(s0) \in {"+", "-"}
            THEN Unsigned(IF Head(s0) = "-" THEN -1 ELSE 1, Tail(s0))
            ELSE Unsigned(1, s0)
    IN  Signed(DropWhile(str, WhiteSpace))

\* trimmed.toLowerCase().startsWith('0x')
StartsWith0x(str) ==
    /\ Len(str) >= 2
    /\ LowerChar(str[1]) = "0"
    /\ LowerChar(str[2]) = "x"

\* /^[0-9a-fA-F]+$/.test(trimmed)
IsHexDigits(str) ==
    /\ str # << >>
    /\ \A k \in 1..Len(str) : DigitValue(str[k]) < 16

\* what parseByteString does with one part of the split string: it skips an
\* empty part, throws for a part that is no byte, and else pushes its value
ParsePart(part) ==
    LET Check(value) ==
            IF value = << >> \/ value[1] < 0 \/ value[1] > 255
            THEN [does |-> "throw", bytes |-> << >>]
            ELSE [does |-> "push", bytes |-> value]
        Read(trimmed) ==
            IF trimmed = << >> THEN [does |-> "skip", bytes |-> << >>]
            ELSE Check(IF StartsWith0x(trimmed) THEN parseInt(trimmed, 16)
                       ELSE IF IsHexDigits(trimmed) /\ Len(trimmed) <= 2
                            THEN parseInt(trimmed, 16)
                            ELSE parseInt(trimmed, 10))
    IN  Read(trim(part))

\* parseByteString: [ok |-> FALSE] when it throws, else the bytes it returns
parseByteString(byteString) ==
    LET Collect(read) ==
            IF \E k \in 1..Len(read) : read[k].does = "throw"
            THEN [ok |-> FALSE, bytes |-> << >>]
            ELSE [ok |-> TRUE,
                  bytes |-> Concat([k \in 1..Len(read) |-> read[k].bytes])]
        Parts(parts) ==
            Collect([k \in 1..Len(parts) |-> ParsePart(parts[k])])
        Normalized(trimmed) ==
            IF trimmed = << >> THEN [ok |-> TRUE, bytes |-> << >>]
            ELSE Parts(split(ReplaceRuns(
                           NormalizeCommas(ReplaceRuns(trimmed, LineBreaks)),
                           WhiteSpace)))
    IN  Normalized(trim(byteString))

\* b.toString(16).padStart(2, '0').toUpperCase()
HexByte(b) ==
    LET digits == IF b < 16 THEN << HexDigits[b + 1] >>
                  ELSE << HexDigits[(b \div 16) + 1], HexDigits[(b % 16) + 1] >>
        padded == IF Len(digits) < 2 THEN << "0" >> \o digits ELSE digits
    IN  toUpperCase(padded)

\* Array.prototype.join(',')
RECURSIVE join(_)
join(strs) ==
    IF strs = << >> THEN << >>
    ELSE IF Len(strs) = 1 THEN strs[1]
         ELSE strs[1] \o << "," >> \o join(Tail(strs))

\* bytesToHexString with b.toString(10) for b.toString(16)
bytesToHexStringDecimal(bytes) ==
    join([k \in 1..Len(bytes) |->
            << "0", "x" >> \o
            (IF bytes[k] < 10 THEN << "0", HexDigits[bytes[k] + 1] >>
             ELSE IF bytes[k] < 100
                  THEN << HexDigits[(bytes[k] \div 10) + 1],
                          HexDigits[(bytes[k] % 10) + 1] >>
                  ELSE << HexDigits[(bytes[k] \div 100) + 1],
                          HexDigits[((bytes[k] \div 10) % 10) + 1],
                          HexDigits[(bytes[k] % 10) + 1] >>)])

\* bytesToHexString
bytesToHexString(bytes) ==
    join([k \in 1..Len(bytes) |-> << "0", "x" >> \o HexByte(bytes[k])])

(* ------------------------------------------------------------------ *)
(* The image library: ImageStorageService and AsyncStorage             *)
(*                                                                     *)
(* Every method of the service starts with "await this.initialize()"   *)
(* and every mutation ends with "await this.saveToStorage()".  A call  *)
(* runs without interruption between two awaits, and the calls under   *)
(* way interleave at their awaits.                                     *)
(* ------------------------------------------------------------------ *)

\* JSON.stringify(this.images): the item setItem is given.  The text keeps
\* every field of the images held here (strings and integers), so the item is
\* represented by the list JSON.parse reads back from it.
StoredItem(list) == [set |-> TRUE, value |-> list]

\* the index in this.images of the image with the id, 0 for findIndex's -1
findIndex(id) ==
    IF \E k \in 1..Len(images) : images[k].id = id
    THEN MinOf({ k \in 1..Len(images) : images[k].id = id })
    ELSE 0

\* list.splice(k, 1)
splice(list, k) == SubSeq(list, 1, k - 1) \o SubSeq(list, k + 1, Len(list))

\* a method of the service is called: it calls initialize, which returns at
\* once when the service is initialized and else calls AsyncStorage.getItem.
\* The field after keeps the calls that had returned when this one was made.
StartCall(o, method, caller, id, name, byteString) ==
    /\ o \in OpIds
    /\ o = nops + 1
    /\ nops' = nops + 1
    /\ ops' = [ops EXCEPT ![o] =
                  [IdleOp EXCEPT !.method = method,
                                 !.caller = caller,
                                 !.pc = IF initialized THEN "afterInit"
                                        ELSE "getItem",
                                 !.id = id,
                                 !.name = name,
                                 !.byteString = byteString,
                                 !.after = { a \in OpIds :
                                               ops[a].pc = "returned" }]]
    /\ UNCHANGED << images, initialized, storage >>

\* what the modal does when the call it awaits in handleSave throws: the
\* catch shows an alert and the finally ends the loading
ModalAfterThrow(o) ==
    IF ops[o].caller = "handleSave"
    THEN /\ loading' = FALSE
         /\ UNCHANGED << mode, editingImage, formData, modalImages >>
    ELSE UNCHANGED modal

\* App.tsx: imageStorageService.initialize() when the app is mounted
Initialize(o) ==
    /\ StartCall(o, "initialize", "App", 0, << >>, << >>)
    /\ UNCHANGED modal

\* refreshImages of useImageDatabase: getAllImages
GetAllImages(o) ==
    /\ StartCall(o, "getAllImages", "refreshImages", 0, << >>, << >>)
    /\ UNCHANGED modal

\* addImage(name, byteString)
AddImage(o, name, byteString) ==
    /\ StartCall(o, "addImage", "api", 0, name, byteString)
    /\ UNCHANGED modal

\* updateImage(id, name, byteString)
UpdateImage(o, id, name, byteString) ==
    /\ StartCall(o, "updateImage", "api", id, name, byteString)
    /\ UNCHANGED modal

\* deleteImage(id)
DeleteImage(o, id) ==
    /\ StartCall(o, "deleteImage", "api", id, << >>, << >>)
    /\ UNCHANGED modal

\* clearAllImages()
ClearAllImages(o) ==
    /\ StartCall(o, "clearAllImages", "api", 0, << >>, << >>)
    /\ UNCHANGED modal

\* initialize, after "await AsyncStorage.getItem": the item read replaces
\* this.images unless it is null, and the service is initialized.  The item
\* is the one the storage holds when the promise is resolved.
GetItemResolved(o) ==
    /\ ops[o].pc = "getItem"
    /\ images' = IF storage.set THEN storage.value ELSE images
    /\ initialized' = TRUE
    /\ ops' = [ops EXCEPT ![o].pc =
                  IF ops[o].method = "initialize" THEN "returned"
                  ELSE "afterInit"]
    /\ UNCHANGED << storage, nops, modal >>

\* initialize, when AsyncStorage.getItem (or JSON.parse) throws: the catch
\* empties this.images, and the service is initialized
GetItemFailed(o) ==
    /\ ops[o].pc = "getItem"
    /\ images' = << >>
    /\ initialized' = TRUE
    /\ ops' = [ops EXCEPT ![o].pc =
                  IF ops[o].method = "initialize" THEN "returned"
                  ELSE "afterInit"]
    /\ UNCHANGED << storage, nops, modal >>

\* initialize called on the initialized service returns at once
InitializeReturns(o) ==
    /\ ops[o].pc = "afterInit"
    /\ ops[o].method = "initialize"
    /\ ops' = [ops EXCEPT ![o].pc = "returned"]
    /\ UNCHANGED << images, initialized, storage, nops, modal >>

\* getAllImages after initialize: it returns a copy of this.images.  For
\* loadImages of handleSave the modal lists the images returned, ends the
\* loading, goes to the list and resets the form; the refreshImages that
\* onImagesChanged starts in the screen is a getAllImages call of its own.
GetAllImagesReturns(o) ==
    /\ ops[o].pc = "afterInit"
    /\ ops[o].method = "getAllImages"
    /\ ops' = [ops EXCEPT ![o].pc = "returned", ![o].result = images]
    /\ IF ops[o].caller = "handleSave"
       THEN /\ modalImages' = images
            /\ mode' = "list"
            /\ formData' = EmptyForm
            /\ editingImage' = NoEditingImage
            /\ loading' = FALSE
       ELSE UNCHANGED modal
    /\ UNCHANGED << images, initialized, storage, nops >>

\* the call throws: its promise is rejected
Throws(o) ==
    /\ ops' = [ops EXCEPT ![o].pc = "threw"]
    /\ ModalAfterThrow(o)
    /\ UNCHANGED << images, initialized, storage, nops >>

\* the call changes this.images to list and calls saveToStorage, which gives
\* JSON.stringify(this.images) to AsyncStorage.setItem
Saves(o, list) ==
    /\ images' = list
    /\ ops' = [ops EXCEPT ![o].pc = "setItem", ![o].item = StoredItem(list)]
    /\ UNCHANGED << initialized, storage, nops, modal >>

\* addImage after initialize, with the check of the byte data left out
AddImageContinuesUnchecked(o) ==
    LET Body(name, parsed) ==
            IF trim(name) = << >> THEN Throws(o)
            ELSE IF \E k \in 1..Len(images) :
                        toLowerCase(images[k].name) = toLowerCase(name)
                 THEN Throws(o)
            ELSE Saves(o, Append(images, [id |-> o,
                                          name |-> trim(name),
                                          byteData |-> parsed.bytes]))
    IN  /\ ops[o].pc = "afterInit"
        /\ ops[o].method = "addImage"
        /\ Body(ops[o].name, parseByteString(ops[o].byteString))

\* addImage after initialize: the checks of the name and of the byte data,
\* then the new image is pushed and the list saved
AddImageContinues(o) ==
    LET Body(name, parsed) ==
            IF trim(name) = << >> THEN Throws(o)
            ELSE IF \E k \in 1..Len(images) :
                        toLowerCase(images[k].name) = toLowerCase(name)
                 THEN Throws(o)
            ELSE IF ~parsed.ok THEN Throws(o)
            ELSE IF Len(parsed.bytes) = 0 THEN Throws(o)
            ELSE Saves(o, Append(images, [id |-> o,
                                          name |-> trim(name),
                                          byteData |-> parsed.bytes]))
    IN  /\ ops[o].pc = "afterInit"
        /\ ops[o].method = "addImage"
        /\ Body(ops[o].name, parseByteString(ops[o].byteString))

\* updateImage after initialize, called with a name and a byte string
UpdateImageContinues(o) ==
    LET Body(imageIndex, trimmedName, parsed) ==
            IF imageIndex = 0 THEN Throws(o)
            ELSE IF trimmedName = << >> THEN Throws(o)
            ELSE IF \E k \in 1..Len(images) :
                        /\ images[k].id # ops[o].id
                        /\ toLowerCase(images[k].name) = toLowerCase(trimmedName)
                 THEN Throws(o)
            ELSE IF ~parsed.ok THEN Throws(o)
            ELSE IF Len(parsed.bytes) = 0 THEN Throws(o)
            ELSE Saves(o, [images EXCEPT ![imageIndex] =
                              [@ EXCEPT !.name = trimmedName,
                                        !.byteData = parsed.bytes]])
    IN  /\ ops[o].pc = "afterInit"
        /\ ops[o].method = "updateImage"
        /\ Body(findIndex(ops[o].id), trim(ops[o].name),
                parseByteString(ops[o].byteString))

\* deleteImage after initialize: false for an id that is not in the list,
\* else the image is spliced out and the list saved
DeleteImageContinues(o) ==
    LET imageIndex == findIndex(ops[o].id)
    IN  /\ ops[o].pc = "afterInit"
        /\ ops[o].method = "deleteImage"
        /\ IF imageIndex = 0
           THEN /\ ops' = [ops EXCEPT ![o].pc = "returned"]
                /\ UNCHANGED << images, initialized, storage, nops, modal >>
           ELSE Saves(o, splice(images, imageIndex))

\* clearAllImages after initialize
ClearAllImagesContinues(o) ==
    /\ ops[o].pc = "afterInit"
    /\ ops[o].method = "clearAllImages"
    /\ Saves(o, << >>)

\* saveToStorage, after "await AsyncStorage.setItem": the item is stored and
\* the mutation returns; handleSave of the modal goes on with loadImages
SetItemResolved(o) ==
    /\ ops[o].pc = "setItem"
    /\ storage' = ops[o].item
    /\ IF ops[o].caller = "handleSave"
       THEN ops' = [ops EXCEPT ![o].method = "getAllImages",
                               ![o].pc = "afterInit",
                               ![o].item = NullItem]
       ELSE ops' = [ops EXCEPT ![o].pc = "returned", ![o].item = NullItem]
    /\ UNCHANGED << images, initialized, nops, modal >>

\* saveToStorage, when AsyncStorage.setItem throws: the mutation throws
\* "Failed to save image data"
SetItemFailed(o) ==
    /\ ops[o].pc = "setItem"
    /\ ops' = [ops EXCEPT ![o].pc = "threw", ![o].item = NullItem]
    /\ ModalAfterThrow(o)
    /\ UNCHANGED << images, initialized, storage, nops >>

(* ------------------------------------------------------------------ *)
(* The form of ImageManagementModal                                    *)
(* ------------------------------------------------------------------ *)

\* "+ Add New" of the list
HandleAdd ==
    /\ mode = "list"
    /\ formData' = EmptyForm
    /\ editingImage' = NoEditingImage
    /\ mode' = "add"
    /\ UNCHANGED << modalImages, loading, service >>

\* "Edit" of an image of the list, which the modal shows when it is not
\* loading: the form gets the name and bytesToHexString of the byte data
HandleEdit(image) ==
    /\ mode = "list"
    /\ ~loading
    /\ \E k \in 1..Len(modalImages) : modalImages[k] = image
    /\ editingImage' = image
    /\ formData' = [name |-> image.name,
                    byteString |-> bytesToHexString(image.byteData)]
    /\ mode' = "edit"
    /\ UNCHANGED << modalImages, loading, service >>

\* validateByteString(formData.byteString) of the render: null for a blank
\* text and for one parseByteString accepts
byteError ==
    /\ trim(formData.byteString) # << >>
    /\ ~parseByteString(formData.byteString).ok

\* the disabled property of the save button
SaveDisabled ==
    \/ trim(formData.name) = << >>
    \/ trim(formData.byteString) = << >>
    \/ byteError
    \/ loading

\* handleSave, from the enabled save button: it sets the loading and calls
\* addImage in the add mode and updateImage in the edit mode
HandleSave(o) ==
    /\ mode \in {"add", "edit"}
    /\ ~SaveDisabled
    /\ IF mode = "add"
       THEN StartCall(o, "addImage", "handleSave", 0,
                      formData.name, formData.byteString)
       ELSE StartCall(o, "updateImage", "handleSave", editingImage.id,
                      formData.name, formData.byteString)
    /\ loading' = TRUE
    /\ UNCHANGED << mode, editingImage, formData, modalImages >>

\* "Back" of the form
BackToList ==
    /\ mode \in {"add", "edit"}
    /\ mode' = "list"
    /\ UNCHANGED << editingImage, formData, modalImages, loading, service >>

(* ------------------------------------------------------------------ *)
(* The service under overlapping calls                                 *)
(* ------------------------------------------------------------------ *)

\* the name and the byte string of an image the user adds in the start-up
NameFoo == << "f", "o", "o" >>

TwoBytes == << "0", "x", "0", "A", ",", " ", "2", "5", "5" >>

\* the start-up: the App initializes the service, the screen refreshes its
\* images and the user adds an image, in any order and overlapping; a call
\* under way goes on from its await
NextStart ==
    \/ \E o \in OpIds : Initialize(o) /\ UNCHANGED ble
    \/ \E o \in OpIds : GetAllImages(o) /\ UNCHANGED ble
    \/ \E o \in OpIds : AddImage(o, NameFoo, TwoBytes) /\ UNCHANGED ble
    \/ \E o \in OpIds : GetItemResolved(o) /\ UNCHANGED ble
    \/ \E o \in OpIds : GetItemFailed(o) /\ UNCHANGED ble
    \/ \E o \in OpIds : InitializeReturns(o) /\ UNCHANGED ble
    \/ \E o \in OpIds : GetAllImagesReturns(o) /\ UNCHANGED ble
    \/ \E o \in OpIds : AddImageContinues(o) /\ UNCHANGED ble
    \/ \E o \in OpIds : SetItemResolved(o) /\ UNCHANGED ble
    \/ \E o \in OpIds : SetItemFailed(o) /\ UNCHANGED ble

SpecStart == Init /\ [][NextStart]_vars

\* the names the mutations are called with: a name, the same name in another
\* case with white space before it, and a blank name
StoreNames == { NameFoo, << " ", "F", "o", "o" >>, << " " >> }

\* the byte strings the mutations are called with: "0x0A, 255", which denotes
\* two bytes, and ",", which denotes none
StoreByteStrings == { TwoBytes, << "," >> }

\* the calls of the mutations
MutationIds == 1..MaxMutations

\* the mutations of the service, called with every input and overlapping
NextStore ==
    \/ \E o \in MutationIds, name \in StoreNames,
          byteString \in StoreByteStrings :
            AddImage(o, name, byteString) /\ UNCHANGED ble
    \/ \E o \in MutationIds, id \in MutationIds, name \in StoreNames,
          byteString \in StoreByteStrings :
            UpdateImage(o, id, name, byteString) /\ UNCHANGED ble
    \/ \E o \in MutationIds, id \in MutationIds :
            DeleteImage(o, id) /\ UNCHANGED ble
    \/ \E o \in MutationIds : ClearAllImages(o) /\ UNCHANGED ble
    \/ \E o \in OpIds : GetItemResolved(o) /\ UNCHANGED ble
    \/ \E o \in OpIds : GetItemFailed(o) /\ UNCHANGED ble
    \/ \E o \in OpIds : AddImageContinues(o) /\ UNCHANGED ble
    \/ \E o \in OpIds : UpdateImageContinues(o) /\ UNCHANGED ble
    \/ \E o \in OpIds : DeleteImageContinues(o) /\ UNCHANGED ble
    \/ \E o \in OpIds : ClearAllImagesContinues(o) /\ UNCHANGED ble
    \/ \E o \in OpIds : SetItemResolved(o) /\ UNCHANGED ble
    \/ \E o \in OpIds : SetItemFailed(o) /\ UNCHANGED ble

SpecStore == Init /\ [][NextStore]_vars

\* C24: a getAllImages called after an addImage returned returns the image
\* that addImage added, as long as no deleteImage and no clearAllImages was
\* called, whatever the order in which the overlapping initialize calls end.
C24_AddedImageStaysListed ==
    [][\A g \in OpIds :
          ( /\ ops[g].method = "getAllImages"
            /\ ops[g].pc = "afterInit"
            /\ ops'[g].pc = "returned"
            /\ \A d \in OpIds :
                  ops[d].method \notin {"deleteImage", "clearAllImages"} )
          => \A a \in ops[g].after :
                ops[a].method = "addImage"
                => \E k \in 1..Len(ops'[g].result) : ops'[g].result[k].id = a]_vars

\* the list JSON.parse reads from the item of the storage, empty when no item
\* was ever stored
PersistedList == IF storage.set THEN storage.value ELSE << >>

Mutations == {"addImage", "updateImage", "deleteImage", "clearAllImages"}

\* C25: when a call of addImage, updateImage, deleteImage or clearAllImages
\* ends, by returning or by throwing, this.images is the list last stored in
\* the storage.
C25_MemoryEqualsPersisted ==
    [][\A o \in OpIds :
          ( /\ ops[o].method \in Mutations
            /\ ops[o].pc \in {"afterInit", "setItem"}
            /\ ops'[o].pc \in {"returned", "threw"} )
          => images' = PersistedList']_vars

\* C26: no two images of this.images have names that are equal when the case
\* of their letters is ignored.
C26_NamesUniqueIgnoringCase ==
    \A j, k \in 1..Len(images) :
        (toLowerCase(images[j].name) = toLowerCase(images[k].name)) => (j = k)

\* the byte data is a non-empty sequence of integers 0..255
IsPayload(byteData) ==
    /\ Len(byteData) > 0
    /\ \A k \in 1..Len(byteData) : byteData[k] \in 0..255

\* C27: every image of this.images, and every image of the list in the
\* storage, has byte data that is a non-empty sequence of integers 0..255.
C27_StoredByteDataIsPayload ==
    /\ \A k \in 1..Len(images) : IsPayload(images[k].byteData)
    /\ \A k \in 1..Len(PersistedList) : IsPayload(PersistedList[k].byteData)

\* an addImage and an updateImage of the image it added have returned, and
\* the list and the storage hold the image
C27_Witness ==
    /\ Len(images) > 0
    /\ Len(PersistedList) > 0
    /\ \E o \in OpIds : ops[o].method = "addImage" /\ ops[o].pc = "returned"
    /\ \E o \in OpIds : ops[o].method = "updateImage" /\ ops[o].pc = "returned"

(* ------------------------------------------------------------------ *)
(* The form of the modal, with a byte text of every format             *)
(* ------------------------------------------------------------------ *)

\* the decimal numeral of n, 0 <= n <= 255
DecimalText(n) ==
    IF n < 10 THEN << HexDigits[n + 1] >>
    ELSE IF n < 100 THEN << HexDigits[(n \div 10) + 1], HexDigits[(n % 10) + 1] >>
    ELSE << HexDigits[(n \div 100) + 1], HexDigits[((n \div 10) % 10) + 1],
            HexDigits[(n % 10) + 1] >>

\* the two hexadecimal digits of n, 0 <= n <= 255, in upper case
HexText(n) ==
    << UpperChar(HexDigits[(n \div 16) + 1]), UpperChar(HexDigits[(n % 16) + 1]) >>

\* the tokens of the three formats of the hint of the form, "0x92", "AB" and
\* "146", for every byte, each with the byte it denotes; a plain token of
\* digits only is a decimal token
TokenCases ==
    { [text |-> << "0", "x" >> \o HexText(n), value |-> n] : n \in 0..255 }
    \cup { [text |-> HexText(n), value |-> n] :
             n \in { m \in 0..255 : (m \div 16) >= 10 \/ (m % 16) >= 10 } }
    \cup { [text |-> DecimalText(n), value |-> n] : n \in 0..255 }

\* texts of several tokens, with the separators of the hint of the form
ListTexts ==
    { << "0", "x", "9", "2", ",", "0", "x", "9", "1" >>,
      << "A", "B", ",", "C", "D" >>,
      << "1", "4", "6", ",", " ", "1", "4", "5", "\n", "2", "0", "0" >>,
      << "0", "x", "0", "0", " ", "F", "F", " ", " ", "1", "2", "8" >> }

FormTexts == { c.text : c \in TokenCases } \cup ListTexts

\* the user has opened the add form of the modal over the empty library and
\* has typed a name and a byte text
InitForm ==
    /\ streamingProgress = 0
    /\ isStreaming = FALSE
    /\ streamingStatus = ""
    /\ sess = [s \in Sessions |-> IdleSession]
    /\ ncalls = 0
    /\ mtuRequests = <<>>
    /\ writes = <<>>
    /\ timers = {}
    /\ pub = [s \in Sessions |-> [statuses |-> <<>>, progresses |-> <<>>]]
    /\ connectedDevice = NullDevice
    /\ isConnected = FALSE
    /\ connecting = [c \in ConnectIds |-> "idle"]
    /\ disconnecting = "idle"
    /\ allDevices = <<>>
    /\ scanning = FALSE
    /\ selectedImageId = NoImage
    /\ sendAlerts = <<>>
    /\ images = << >>
    /\ initialized = FALSE
    /\ storage = NullItem
    /\ ops = [o \in OpIds |-> IdleOp]
    /\ nops = 0
    /\ mode = "add"
    /\ editingImage = NoEditingImage
    /\ formData \in { [name |-> NameFoo, byteString |-> text] :
                        text \in FormTexts }
    /\ modalImages = << >>
    /\ loading = FALSE

\* the buttons of the modal, and the calls of the service under way
NextForm ==
    \/ HandleAdd /\ UNCHANGED ble
    \/ \E k \in 1..Len(modalImages) :
            HandleEdit(modalImages[k]) /\ UNCHANGED ble
    \/ \E o \in OpIds : HandleSave(o) /\ UNCHANGED ble
    \/ BackToList /\ UNCHANGED ble
    \/ \E o \in OpIds : GetItemResolved(o) /\ UNCHANGED ble
    \/ \E o \in OpIds : GetItemFailed(o) /\ UNCHANGED ble
    \/ \E o \in OpIds : GetAllImagesReturns(o) /\ UNCHANGED ble
    \/ \E o \in OpIds : AddImageContinues(o) /\ UNCHANGED ble
    \/ \E o \in OpIds : UpdateImageContinues(o) /\ UNCHANGED ble
    \/ \E o \in OpIds : SetItemResolved(o) /\ UNCHANGED ble
    \/ \E o \in OpIds : SetItemFailed(o) /\ UNCHANGED ble

SpecForm == InitForm /\ [][NextForm]_vars

\* C28: the form accepts every token of the three formats, and addImage
\* called with the token stores the one byte the token denotes: the
\* hexadecimal value of a token with the prefix 0x and of a plain token of
\* hex digits, the decimal value of a decimal token 0..255.
C28_TokenFormatsReadAsStated ==
    /\ [](\A c \in TokenCases :
             (mode = "add" /\ formData.byteString = c.text) => ~byteError)
    /\ [][\A o \in OpIds :
             ( /\ ops[o].method = "addImage"
               /\ ops[o].pc = "afterInit"
               /\ ops'[o].pc = "setItem" )
             => \A c \in TokenCases :
                   (ops[o].byteString = c.text)
                   => images'[Len(images')].byteData = << c.value >>]_vars

\* C29: the text handleEdit writes into the form for an image, the
\* bytesToHexString of its byte data, is read back by parseByteString as that
\* byte data, and an updateImage called with that text leaves the byte data
\* of the image unchanged.
C29_HexStringRoundTrip ==
    /\ [](( /\ mode = "edit"
            /\ formData.byteString = bytesToHexString(editingImage.byteData) )
          => parseByteString(formData.byteString) =
                 [ok |-> TRUE, bytes |-> editingImage.byteData])
    /\ [][\A o \in OpIds :
             ( /\ ops[o].method = "updateImage"
               /\ ops[o].pc = "afterInit"
               /\ ops'[o].pc # "afterInit"
               /\ findIndex(ops[o].id) # 0
               /\ ops[o].byteString =
                      bytesToHexString(images[findIndex(ops[o].id)].byteData) )
             => /\ ops'[o].pc = "setItem"
                /\ images'[findIndex(ops[o].id)].byteData =
                       images[findIndex(ops[o].id)].byteData]_vars

\* an image of two bytes, one above 127 and one below 16, was opened in the
\* edit form and saved with the text handleEdit wrote, and the modal is back
\* at the list
C29_Witness ==
    /\ mode = "list"
    /\ Len(images) = 1
    /\ Len(images[1].byteData) >= 2
    /\ \E k \in 1..Len(images[1].byteData) : images[1].byteData[k] > 127
    /\ \E k \in 1..Len(images[1].byteData) : images[1].byteData[k] < 16
    /\ \E o \in OpIds :
          /\ ops[o].caller = "handleSave"
          /\ ops[o].id = images[1].id
          /\ ops[o].pc = "returned"
          /\ ops[o].byteString = bytesToHexString(images[1].byteData)

====
